---- MODULE Spec2Model ----
(***************************************************************************)
(* Nappi backend: the in-memory sleep tracker (SleepStateManager) and the  *)
(* sensor-event request handlers of app/api/sensor_events.py.              *)
(*                                                                         *)
(* Execution model.  The handlers are asyncio coroutines on one event      *)
(* loop.  A coroutine gives the loop away only where an await really       *)
(* suspends: the database and network calls.  The tracker's methods take   *)
(* an asyncio.Lock whose body contains no await, so the lock is never      *)
(* contended, acquiring it never suspends, and a call of a tracker method  *)
(* runs to its return without any other coroutine running.  The variable   *)
(* running holds the request that owns the loop between two suspensions.   *)
(* Every tracker call reads the wall clock (datetime.utcnow()) by itself;  *)
(* the clock may advance between any two steps, also inside a segment.     *)
(*                                                                         *)
(* The SELECT of get_babies_list is taken to read the babies table at the  *)
(* instant the handler suspends on it.  The table only grows and the       *)
(* tracker holds nothing for an id that is not in it, so a SELECT that     *)
(* runs later in the wait gives the answers of a request that arrived      *)
(* later.  Awaits on calls that touch neither the tracker nor the tables   *)
(* modelled here (last sensor readings, insight, alert) are part of the    *)
(* step before them.                                                       *)
(*                                                                         *)
(* The monitor device (m5stack_final.py) is one MicroPython program of its *)
(* own: a single loop, no threads.  It reaches the backend only through    *)
(* the POSTs of post_event, whose answers it does not read.  Its state is  *)
(* kept in variables of its own; the backend's steps leave them alone and  *)
(* the device's steps leave the backend's alone.  PairSpec puts the two    *)
(* together: there the POST of the device is the request the handler of    *)
(* the service gets, and the device waits in urequests.post for the        *)
(* answer.  TransitionSpec is handle_state_transition on any debounced     *)
(* labels, LatencySpec the debouncer after a long silence of the camera.   *)
(*                                                                         *)
(* The sleep block aggregator (utils/sleep_blocks.py) is a function the    *)
(* analytics code calls on rows it has read; it is specified by itself on  *)
(* bounded collections of records (BlockSpec).                             *)
(***************************************************************************)
EXTENDS Integers, Sequences, FiniteSets, TLC

\* ---------------------------------------------------------------- bounds
\* backend
MaxBabies == 2          \* rows the babies table can grow to
NumRequests == 2        \* requests in flight at once
MaxTicks == 2           \* clock advances explored
TickMinutes == 10       \* minutes per clock advance
MaxEvents == 1          \* awakening records before sleep-end requests stop arriving
\* device
MaxLines == 2           \* lines the UART holds when a pass drains it
MaxBuffer == 2          \* readings the window holds before the camera goes quiet
MaxSteps == 3           \* clock instants explored after each half period
MaxHalfPeriods == 1     \* half periods of the tick counter explored
StepMs == 12500         \* milliseconds between two explored instants
MaxMajority == 9        \* readings of the first label in a drawn window
MaxMinority == 5        \* readings of the second label in a drawn window
MaxThird == 3           \* readings of the third label in a drawn window
WarmUpMs == 60000       \* the instant of the first reading of a drawn window
MaxQueue == 3           \* readings waiting to be fed to a drawn window
ReadingMs == 500        \* milliseconds between the readings of a drawn window
CamConfidence == 100    \* the conf of the lines the camera sends
\* bounds of the sleep block aggregator
MaxRecords == 3         \* records in the collection handed to the aggregator
MaxStale == 3           \* readings left in the window from before a silence
MaxEmitted == 5         \* events of the device recorded in a behaviour
MaxCalls == 2           \* calls of the aggregator on one collection

\* ------------------------------------------------------ program constants
INTERVENTION_COOLDOWN_MINUTES == 20
DEBOUNCE_WINDOW_S == 25
DEBOUNCE_THRESHOLD == 600
SLEEP_BLOCK_GAP_THRESHOLD_MINUTES == 30

None == -1

BabyIds == 1..MaxBabies
Requests == 1..NumRequests
Actions == {"mark_asleep", "mark_awake", "rock"}

VARIABLES
    now,                     \* datetime.utcnow(), in minutes
    babies,                  \* ids of the rows of "Nappi"."babies"
    sleeping_babies,         \* SleepStateManager._sleeping_babies
    intervention_cooldowns,  \* SleepStateManager._intervention_cooldowns
    awakening_events,        \* rows of "Nappi"."awakening_events", by baby_id
    req,                     \* the coroutine of each request in flight
    running,                 \* the request that owns the event loop, 0 if none
    reply,                   \* the answer the last step sent, if it sent one
    lock                     \* SleepStateManager._lock: the request inside a block, 0 if free

vars == <<now, babies, sleeping_babies, intervention_cooldowns,
          awakening_events, req, running, reply, lock>>

VARIABLES
    uptime,                  \* milliseconds since the device booted
    buffer,                  \* VerdictDebouncer._buffer
    current_state,           \* "awake" | "asleep" | "away"
    cam_readings,            \* loop(): the readings of this pass not fed yet
    halted,                  \* an exception has left loop(): the program is over
    debounced,               \* loop(): what the feed of this step returned
    posted,                  \* the POST urequests.post is waiting on, with its outcome
    emitted                  \* the endpoints post_event was called with, in order

device == <<uptime, buffer, current_state, cam_readings, halted, debounced, posted,
            emitted>>

VARIABLES
    events,                  \* the caller's list handed to group_into_sleep_blocks
    gap_threshold_minutes,   \* the caller's threshold
    source,                  \* the caller's source argument
    normalized,              \* the local list of the last call, after its sort
    blocks,                  \* what the last call returned
    result,                  \* "none" | "returned" | "raised": how the last call ended
    calls                    \* calls made on this collection

aggregator == <<events, gap_threshold_minutes, source, normalized, blocks, result, calls>>

\* debounced before the feed of a pass has returned
NotFed == "NotFed"

\* no collection has been handed to the aggregator
AggregatorIdle ==
    /\ events = <<>>
    /\ gap_threshold_minutes = SLEEP_BLOCK_GAP_THRESHOLD_MINUTES
    /\ source = "auto"
    /\ normalized = <<>>
    /\ blocks = <<>>
    /\ result = "none"
    /\ calls = 0

\* the module's globals once setup() has returned
DeviceBoot ==
    /\ uptime = 0
    /\ buffer = <<>>
    /\ current_state = "away"
    /\ cam_readings = <<>>
    /\ halted = FALSE
    /\ debounced = NotFed
    /\ posted = <<>>
    /\ emitted = <<>>

\* ------------------------------------------------------------ Python dict
\* A dict is the set of its items; d[k] = v replaces the item of key k.
DictHas(d, k) == \E e \in d : e.key = k
DictGet(d, k) == IF DictHas(d, k) THEN (CHOOSE e \in d : e.key = k).val ELSE None
DictDel(d, k) == {e \in d : e.key # k}
DictSet(d, k, v) == DictDel(d, k) \cup {[key |-> k, val |-> v]}
DictKeys(d) == {e.key : e \in d}

\* ------------------------------------------------------ SleepStateManager
\* Each method is given as its returned value and the dict it leaves.

\* mutant: the new session is returned also when one is there
start_sleep_ret_fresh(sl, baby_id, t) == t

start_sleep_ret(sl, baby_id, t) ==
    IF DictHas(sl, baby_id) THEN DictGet(sl, baby_id) ELSE t

\* mutant: no "already sleeping" guard, the session is overwritten
start_sleep_map_overwrite(sl, baby_id, t) == DictSet(sl, baby_id, t)

start_sleep_map(sl, baby_id, t) ==
    IF DictHas(sl, baby_id) THEN sl ELSE DictSet(sl, baby_id, t)

end_sleep_ret(sl, baby_id) == DictGet(sl, baby_id)

\* mutant: the pop takes every session with it
end_sleep_map_clear(sl, baby_id) == {}

\* mutant: end_sleep reads the session and leaves it in the map
end_sleep_map_keep(sl, baby_id) == sl

end_sleep_map(sl, baby_id) == DictDel(sl, baby_id)

start_intervention_cooldown_ret(t) == t + INTERVENTION_COOLDOWN_MINUTES

\* mutant: a cooldown that is still active is not restarted
start_intervention_cooldown_map_keep(cd, baby_id, t) ==
    IF DictHas(cd, baby_id) /\ t < DictGet(cd, baby_id) THEN cd
    ELSE DictSet(cd, baby_id, start_intervention_cooldown_ret(t))

start_intervention_cooldown_map(cd, baby_id, t) ==
    DictSet(cd, baby_id, start_intervention_cooldown_ret(t))

\* mutant: the comparison is turned round
is_in_cooldown_ret_reversed(cd, baby_id, t) ==
    DictHas(cd, baby_id) /\ t > DictGet(cd, baby_id)

\* mutant: the entry still counts at the instant it expires
is_in_cooldown_ret_inclusive(cd, baby_id, t) ==
    DictHas(cd, baby_id) /\ t <= DictGet(cd, baby_id)

is_in_cooldown_ret(cd, baby_id, t) ==
    DictHas(cd, baby_id) /\ t < DictGet(cd, baby_id)

\* mutant: an expired entry is left where it is
is_in_cooldown_map_lazy(cd, baby_id, t) == cd

is_in_cooldown_map(cd, baby_id, t) ==
    IF DictHas(cd, baby_id) /\ ~(t < DictGet(cd, baby_id))
    THEN DictDel(cd, baby_id) ELSE cd

\* remaining is a float number of minutes; the clock here is in whole
\* minutes, so int(remaining) is the difference itself.
get_cooldown_remaining_ret(cd, baby_id, t) ==
    IF ~DictHas(cd, baby_id) THEN None
    ELSE LET remaining == DictGet(cd, baby_id) - t
         IN IF remaining > 0 THEN remaining + 1 ELSE None

get_cooldown_remaining_map(cd, baby_id, t) ==
    IF DictHas(cd, baby_id) /\ ~(DictGet(cd, baby_id) - t > 0)
    THEN DictDel(cd, baby_id) ELSE cd

\* get_sleep_session and get_sleeping_babies read the session map
get_sleep_session_ret(sl, baby_id) == DictGet(sl, baby_id)

get_sleep_session_map(sl, baby_id) == sl

get_sleeping_babies_ret(sl) == DictKeys(sl)

get_sleeping_babies_map(sl) == sl

\* mutant: the block is left with the lock still held
release_never(holder) == holder

\* Lock.release(), called by __aexit__ on every way out of the block
release(holder) == 0

\* a method of the tracker called by request r: "async with self._lock"
\* finds the lock free and takes it without suspending, the body has no
\* await, and the block is left before the method returns
WithLock(r) ==
    /\ lock = 0
    /\ lock' = release(r)

\* ---------------------------------------------------------------- requests
NoReply == [kind |-> "none", baby_id |-> 0, action |-> "none", code |-> 0,
            body |-> "none", cooldown_remaining_minutes |-> None,
            start_time |-> None, cooldown_until |-> None,
            sleeping_baby_ids |-> {}]

Idle == [kind |-> "none", baby_id |-> 0, action |-> "none", pc |-> "idle",
         baby_exists |-> FALSE, session |-> None, cooldown_until |-> None]

\* the coroutine of a request that has just arrived
New(kind, baby_id, action) ==
    [Idle EXCEPT !.kind = kind, !.baby_id = baby_id, !.action = action]

\* a request arrives: FastAPI starts its coroutine when the event loop is
\* free; r is the first free slot
Arrives(r) ==
    /\ running = 0
    /\ req[r].pc = "idle"
    /\ \A r2 \in Requests : r2 < r => req[r2].pc # "idle"

\* the coroutine of r is at pc and may run
At(r, kind, pc) ==
    /\ running \in {0, r}
    /\ req[r].kind = kind
    /\ req[r].pc = pc

\* the coroutine of r goes on as q; keep: it still owns the event loop
Goto(r, q, keep) ==
    /\ req' = [req EXCEPT ![r] = q]
    /\ running' = IF keep THEN r ELSE 0
    /\ reply' = NoReply
    /\ UNCHANGED <<device, aggregator>>

\* the coroutine q of r returns or raises HTTPException
Answer(r, q, code, body, remaining, start_time, until) ==
    /\ req' = [req EXCEPT ![r] = Idle]
    /\ running' = 0
    /\ reply' = [kind |-> q.kind, baby_id |-> q.baby_id,
                 action |-> q.action, code |-> code, body |-> body,
                 cooldown_remaining_minutes |-> remaining,
                 start_time |-> start_time, cooldown_until |-> until,
                 sleeping_baby_ids |-> {}]
    /\ UNCHANGED <<device, aggregator>>

BackendBoot ==
    /\ now = 0
    /\ babies = {1}
    /\ sleeping_babies = {}
    /\ intervention_cooldowns = {}
    /\ awakening_events = <<>>
    /\ req = [r \in Requests |-> Idle]
    /\ running = 0
    /\ reply = NoReply
    /\ lock = 0

Init == BackendBoot /\ DeviceBoot /\ AggregatorIdle

\* time passes
Tick ==
    /\ now + TickMinutes <= MaxTicks * TickMinutes
    /\ now' = now + TickMinutes
    /\ reply' = NoReply
    /\ UNCHANGED <<babies, sleeping_babies, intervention_cooldowns,
                   awakening_events, req, running, lock>>
    /\ UNCHANGED <<device, aggregator>>

\* auth_manager: a new row of the babies table; ids are a serial
RegisterBaby ==
    /\ Cardinality(babies) < MaxBabies
    /\ babies' = babies \cup {Cardinality(babies) + 1}
    /\ reply' = NoReply
    /\ UNCHANGED <<now, sleeping_babies, intervention_cooldowns,
                   awakening_events, req, running, lock>>
    /\ UNCHANGED <<device, aggregator>>

\* mutant: any(b.id for b in babies), true of every non-empty table
baby_exists_in_any_row(rows, baby_id) == rows # {}

\* any(b.id == baby_id for b in babies)
baby_exists_in(rows, baby_id) == baby_id \in rows

\* ------------------------------------------------- POST /sensor/sleep-start
\* lines 57-77: the request arrives; the cooldown guard; without a cooldown
\* the handler suspends on get_babies_list
sleep_start_check(r, baby_id) ==
    LET q == New("sleep_start", baby_id, "none") IN
    /\ Arrives(r)
    /\ intervention_cooldowns' = is_in_cooldown_map(intervention_cooldowns, baby_id, now)
    /\ IF is_in_cooldown_ret(intervention_cooldowns, baby_id, now)
       THEN Goto(r, [q EXCEPT !.pc = "get_cooldown_remaining"], TRUE)
       ELSE Goto(r, [q EXCEPT !.pc = "start_sleep",
                              !.baby_exists = baby_exists_in(babies, baby_id)], FALSE)
    /\ WithLock(r)
    /\ UNCHANGED <<now, babies, sleeping_babies, awakening_events>>

\* lines 64-73: the ignored answer
sleep_start_ignored(r) ==
    LET q == req[r] IN
    /\ At(r, "sleep_start", "get_cooldown_remaining")
    /\ intervention_cooldowns' = get_cooldown_remaining_map(intervention_cooldowns, q.baby_id, now)
    /\ Answer(r, q, 200, "ignored",
              get_cooldown_remaining_ret(intervention_cooldowns, q.baby_id, now), None, None)
    /\ WithLock(r)
    /\ UNCHANGED <<now, babies, sleeping_babies, awakening_events>>

\* lines 79-89: the coroutine resumes
sleep_start_resume(r) ==
    LET q == req[r] IN
    /\ At(r, "sleep_start", "start_sleep")
    /\ IF ~q.baby_exists
       THEN /\ Answer(r, q, 404, "not_found", None, None, None)
            /\ UNCHANGED <<sleeping_babies, lock>>
       ELSE /\ sleeping_babies' = start_sleep_map(sleeping_babies, q.baby_id, now)
            /\ WithLock(r)
            /\ Answer(r, q, 200, "SleepStartResponse", None,
                      start_sleep_ret(sleeping_babies, q.baby_id, now), None)
    /\ UNCHANGED <<now, babies, intervention_cooldowns, awakening_events>>

\* --------------------------------------------------- POST /sensor/sleep-end
\* lines 94-101: the request arrives; the cooldown guard.  awakened_at
\* (line 97) only goes into the record's metadata and is left out.
sleep_end_check(r, baby_id) ==
    LET q == New("sleep_end", baby_id, "none") IN
    /\ Arrives(r)
    /\ Len(awakening_events) < MaxEvents
    /\ intervention_cooldowns' = is_in_cooldown_map(intervention_cooldowns, baby_id, now)
    /\ IF is_in_cooldown_ret(intervention_cooldowns, baby_id, now)
       THEN Goto(r, [q EXCEPT !.pc = "get_cooldown_remaining"], TRUE)
       ELSE Goto(r, [q EXCEPT !.pc = "end_sleep"], TRUE)
    /\ WithLock(r)
    /\ UNCHANGED <<now, babies, sleeping_babies, awakening_events>>

\* lines 102-111
sleep_end_ignored(r) ==
    LET q == req[r] IN
    /\ At(r, "sleep_end", "get_cooldown_remaining")
    /\ intervention_cooldowns' = get_cooldown_remaining_map(intervention_cooldowns, q.baby_id, now)
    /\ Answer(r, q, 200, "ignored",
              get_cooldown_remaining_ret(intervention_cooldowns, q.baby_id, now), None, None)
    /\ WithLock(r)
    /\ UNCHANGED <<now, babies, sleeping_babies, awakening_events>>

\* lines 113-147: end_sleep; with a session the handler reads the last
\* sensor readings (nothing of the tracker) and sends the INSERT
sleep_end_end_sleep(r) ==
    LET q == req[r]
        session == end_sleep_ret(sleeping_babies, q.baby_id) IN
    /\ At(r, "sleep_end", "end_sleep")
    /\ sleeping_babies' = end_sleep_map(sleeping_babies, q.baby_id)
    /\ IF session = None
       THEN Answer(r, q, 400, "not_sleeping", None, None, None)
       ELSE Goto(r, [q EXCEPT !.pc = "set_baby_awaking_event", !.session = session], FALSE)
    /\ WithLock(r)
    /\ UNCHANGED <<now, babies, intervention_cooldowns, awakening_events>>

\* lines 147-193 and babies_data.set_baby_awaking_event: the INSERT returns
\* an id, or fails and the handler answers 500; insight and alert follow
\* (their failures are swallowed, they touch nothing of the tracker)
sleep_end_set_baby_awaking_event(r, ok) ==
    LET q == req[r] IN
    /\ At(r, "sleep_end", "set_baby_awaking_event")
    /\ IF ok
       THEN /\ awakening_events' = Append(awakening_events, [baby_id |-> q.baby_id])
            /\ Answer(r, q, 200, "AwakeningEventResponse", None, q.session, None)
       ELSE /\ UNCHANGED awakening_events
            /\ Answer(r, q, 500, "record_failed", None, None, None)
    /\ UNCHANGED lock
    /\ UNCHANGED <<now, babies, sleeping_babies, intervention_cooldowns>>

\* --------------------------------------------------- POST /sensor/baby-away
\* lines 231-258
baby_away(r, baby_id) ==
    LET q == New("baby_away", baby_id, "none")
        session == end_sleep_ret(sleeping_babies, baby_id) IN
    /\ Arrives(r)
    /\ sleeping_babies' = end_sleep_map(sleeping_babies, baby_id)
    /\ IF session = None
       THEN Answer(r, q, 200, "was_not_sleeping", None, None, None)
       ELSE Answer(r, q, 200, "was_sleeping", None, session, None)
    /\ WithLock(r)
    /\ UNCHANGED <<now, babies, intervention_cooldowns, awakening_events>>

\* ------------------------------------------------ POST /sensor/intervention
\* lines 263-278: the request arrives; the action is validated; the handler
\* suspends on get_babies_list
parent_intervention_validate(r, baby_id, action) ==
    LET q == New("intervention", baby_id, action) IN
    /\ Arrives(r)
    /\ IF action \notin {"mark_asleep", "mark_awake"}
       THEN Answer(r, q, 400, "invalid_action", None, None, None)
       ELSE Goto(r, [q EXCEPT !.pc = "start_intervention_cooldown",
                              !.baby_exists = baby_exists_in(babies, baby_id)], FALSE)
    /\ UNCHANGED lock
    /\ UNCHANGED <<now, babies, sleeping_babies, intervention_cooldowns, awakening_events>>

\* lines 280-284: the coroutine resumes
parent_intervention_cooldown(r) ==
    LET q == req[r] IN
    /\ At(r, "intervention", "start_intervention_cooldown")
    /\ IF ~q.baby_exists
       THEN /\ Answer(r, q, 404, "not_found", None, None, None)
            /\ UNCHANGED <<intervention_cooldowns, lock>>
       ELSE /\ WithLock(r)
            /\ intervention_cooldowns' =
                   start_intervention_cooldown_map(intervention_cooldowns, q.baby_id, now)
            /\ Goto(r, [q EXCEPT !.pc = IF q.action = "mark_asleep"
                                        THEN "start_sleep" ELSE "end_sleep",
                                 !.cooldown_until = start_intervention_cooldown_ret(now)], TRUE)
    /\ UNCHANGED <<now, babies, sleeping_babies, awakening_events>>

\* lines 286-294
parent_intervention_mark_asleep(r) ==
    LET q == req[r] IN
    /\ At(r, "intervention", "start_sleep")
    /\ sleeping_babies' = start_sleep_map(sleeping_babies, q.baby_id, now)
    /\ Answer(r, q, 200, "sleeping", None, None, q.cooldown_until)
    /\ WithLock(r)
    /\ UNCHANGED <<now, babies, intervention_cooldowns, awakening_events>>

\* lines 295-309
parent_intervention_mark_awake(r) ==
    LET q == req[r] IN
    /\ At(r, "intervention", "end_sleep")
    /\ sleeping_babies' = end_sleep_map(sleeping_babies, q.baby_id)
    /\ Answer(r, q, 200, "awake", None, None, q.cooldown_until)
    /\ WithLock(r)
    /\ UNCHANGED <<now, babies, intervention_cooldowns, awakening_events>>

\* ------------------------------------- GET /sensor/cooldown-status/{baby_id}
\* lines 314-316
get_cooldown_status_check(r, baby_id) ==
    LET q == New("cooldown_status", baby_id, "none") IN
    /\ Arrives(r)
    /\ intervention_cooldowns' = is_in_cooldown_map(intervention_cooldowns, baby_id, now)
    /\ IF is_in_cooldown_ret(intervention_cooldowns, baby_id, now)
       THEN Goto(r, [q EXCEPT !.pc = "get_cooldown_remaining"], TRUE)
       ELSE Answer(r, q, 200, "no_cooldown", None, None, None)
    /\ WithLock(r)
    /\ UNCHANGED <<now, babies, sleeping_babies, awakening_events>>

\* lines 317-324
get_cooldown_status_remaining(r) ==
    LET q == req[r] IN
    /\ At(r, "cooldown_status", "get_cooldown_remaining")
    /\ intervention_cooldowns' = get_cooldown_remaining_map(intervention_cooldowns, q.baby_id, now)
    /\ Answer(r, q, 200, "in_cooldown",
              get_cooldown_remaining_ret(intervention_cooldowns, q.baby_id, now), None, None)
    /\ WithLock(r)
    /\ UNCHANGED <<now, babies, sleeping_babies, awakening_events>>

\* --------------------------------------- GET /sensor/sleep-status/{baby_id}
\* the handler has no await that suspends: it arrives and answers in one step
get_sleep_status(r, baby_id) ==
    LET q == New("sleep_status", baby_id, "none")
        session == get_sleep_session_ret(sleeping_babies, baby_id)
    IN
    /\ Arrives(r)
    /\ sleeping_babies' = get_sleep_session_map(sleeping_babies, baby_id)
    /\ Answer(r, q, 200, IF session # None THEN "sleeping" ELSE "not_sleeping",
              None, session, None)
    /\ WithLock(r)
    /\ UNCHANGED <<now, babies, intervention_cooldowns, awakening_events>>

\* -------------------------------------------------- GET /sensor/sleeping-babies
get_sleeping_babies(r) ==
    /\ Arrives(r)
    /\ sleeping_babies' = get_sleeping_babies_map(sleeping_babies)
    /\ req' = req
    /\ running' = 0
    /\ reply' = [NoReply EXCEPT !.kind = "sleeping_babies", !.code = 200,
                                !.body = "count",
                                !.sleeping_baby_ids =
                                    get_sleeping_babies_ret(sleeping_babies)]
    /\ WithLock(r)
    /\ UNCHANGED <<now, babies, intervention_cooldowns, awakening_events>>
    /\ UNCHANGED <<device, aggregator>>

Next ==
    \/ Tick
    \/ RegisterBaby
    \/ \E r \in Requests, baby_id \in BabyIds : sleep_start_check(r, baby_id)
    \/ \E r \in Requests : sleep_start_ignored(r)
    \/ \E r \in Requests : sleep_start_resume(r)
    \/ \E r \in Requests, baby_id \in BabyIds : sleep_end_check(r, baby_id)
    \/ \E r \in Requests : sleep_end_ignored(r)
    \/ \E r \in Requests : sleep_end_end_sleep(r)
    \/ \E r \in Requests, ok \in BOOLEAN : sleep_end_set_baby_awaking_event(r, ok)
    \/ \E r \in Requests, baby_id \in BabyIds : baby_away(r, baby_id)
    \/ \E r \in Requests, baby_id \in BabyIds, action \in Actions :
          parent_intervention_validate(r, baby_id, action)
    \/ \E r \in Requests : parent_intervention_cooldown(r)
    \/ \E r \in Requests : parent_intervention_mark_asleep(r)
    \/ \E r \in Requests : parent_intervention_mark_awake(r)
    \/ \E r \in Requests, baby_id \in BabyIds : get_cooldown_status_check(r, baby_id)
    \/ \E r \in Requests : get_cooldown_status_remaining(r)
    \/ \E r \in Requests, baby_id \in BabyIds : get_sleep_status(r, baby_id)
    \/ \E r \in Requests : get_sleeping_babies(r)

Spec == Init /\ [][Next]_vars

\* ===================================================================== device
\* ----------------------------------------------- time.ticks_ms (MicroPython)
\* ticks_ms() counts milliseconds modulo TICKS_PERIOD; ticks_add and
\* ticks_diff are the modular sum and the signed modular difference, right
\* for instants less than half a period apart.
TICKS_PERIOD == 1073741824

ticks_ms == uptime % TICKS_PERIOD

ticks_add(ticks, delta) == (ticks + delta) % TICKS_PERIOD

ticks_diff(ticks1, ticks2) ==
    ((ticks1 - ticks2 + TICKS_PERIOD \div 2) % TICKS_PERIOD) - TICKS_PERIOD \div 2

\* --------------------------------------------------------- camera UART lines
Labels == {"Asleep", "Awake", "No Baby Found"}

\* a verdict that is a JSON list, as the debouncer's dict key
ListVerdict == "[list]"

Verdicts == Labels \cup {ListVerdict}

\* Python's None as the value feed returns
NoVerdict == "None"

\* A line as what the parser can tell of it: whether its bytes decode,
\* what JSON it is, the type and text of "verdict" (prefixed: with the index
\* of the labels file before it, "0 Asleep"), the type and value of "conf".
CameraLine(prefixed, verdict, conf) ==
    [bytes |-> "utf8", json |-> "object", verdict_type |-> "str",
     prefixed |-> prefixed, verdict |-> verdict, conf_type |-> "int", conf |-> conf]

WellFormed == {CameraLine(p, v, CamConfidence) : p \in BOOLEAN, v \in Labels}

\* one line of each malformed kind: undecodable bytes; text that is not
\* JSON; JSON that is not an object; no verdict; a verdict that is a number
\* (not 0) or a list; a conf that is a string; no conf
Malformed ==
    LET l == CameraLine(FALSE, "Asleep", CamConfidence) IN
    {[l EXCEPT !.bytes = "undecodable"],
     [l EXCEPT !.json = "text"],
     [l EXCEPT !.json = "array"],
     [l EXCEPT !.verdict_type = "missing"],
     [l EXCEPT !.verdict_type = "int"],
     [l EXCEPT !.verdict_type = "list", !.verdict = ListVerdict],
     [l EXCEPT !.conf_type = "str", !.conf = 0],
     [l EXCEPT !.conf_type = "missing", !.conf = 0]}

Lines == WellFormed \cup Malformed

Drains == UNION {[1..n -> Lines] : n \in 0..MaxLines}

\* raw[2:] when raw has the index prefix, raw otherwise
normalize_verdict(line) == line.verdict

\* the body of the while loop of parse_camera_uart for one line: the
\* readings it appends to results.  Whatever the try block raises is passed
\* over: decode() on bad bytes, json.loads on text that is not JSON,
\* payload.get on a payload that is no dict, len(raw) in _normalize_verdict
\* on a number.  A list comes back from _normalize_verdict as it is.
parse_line(line) ==
    IF line.bytes # "utf8" THEN <<>>
    ELSE IF line.json # "object" THEN <<>>
    ELSE IF line.verdict_type = "missing" THEN <<>>
    ELSE IF line.verdict_type = "int" THEN <<>>
    ELSE <<[verdict |-> normalize_verdict(line),
            verdict_type |-> line.verdict_type,
            confidence |-> IF line.conf_type = "missing" THEN 0 ELSE line.conf,
            conf_type |-> IF line.conf_type = "missing" THEN "int" ELSE line.conf_type]>>

RECURSIVE parse_results(_)
parse_results(lines) ==
    IF lines = <<>> THEN <<>>
    ELSE parse_line(Head(lines)) \o parse_results(Tail(lines))

\* ---------------------------------------------------------- VerdictDebouncer
window_ms == DEBOUNCE_WINDOW_S * 1000

\* the tuple feed appends; observed_at is the instant itself, which the
\* program does not keep (it keeps t, the tick counter's value)
Entry(rd) == [t |-> ticks_ms, v |-> rd.verdict, c |-> rd.confidence,
              observed_at |-> uptime]

\* lines 289-291
prune(buf, ticks) ==
    LET cutoff == ticks_add(ticks, -window_ms)
        kept(e) == ticks_diff(e.t, cutoff) >= 0
    IN SelectSeq(buf, kept)

\* lines 294-298: the dicts counts and scores
keys(buf) == {buf[i].v : i \in DOMAIN buf}

counts(buf, v) == Cardinality({i \in DOMAIN buf : buf[i].v = v})

RECURSIVE scores(_, _)
scores(buf, v) ==
    IF buf = <<>> THEN 0
    ELSE (IF Head(buf).v = v THEN Head(buf).c ELSE 0) + scores(Tail(buf), v)

\* max(counts, key=counts.get) gives the first key of greatest count in the
\* dict's iteration order, which MicroPython does not fix: any of these
argmax(buf) == {v \in keys(buf) : \A w \in keys(buf) : counts(buf, v) >= counts(buf, w)}

\* mutant: the dominance test with <= for <
feed_ret_strict(buf, best) ==
    IF \E v \in keys(buf) : v # best /\ counts(buf, best) <= counts(buf, v) * 3
    THEN NoVerdict
    ELSE IF scores(buf, best) >= DEBOUNCE_THRESHOLD THEN best
    ELSE NoVerdict

\* mutant: no confidence test
feed_ret_unweighted(buf, best) ==
    IF \E v \in keys(buf) : v # best /\ counts(buf, best) < counts(buf, v) * 3
    THEN NoVerdict
    ELSE best

\* mutant: the dominance test passes over the labels that tie with the winner
feed_ret_ties(buf, best) ==
    IF \E v \in keys(buf) : /\ v # best
                            /\ counts(buf, v) < counts(buf, best)
                            /\ counts(buf, best) < counts(buf, v) * 3
    THEN NoVerdict
    ELSE IF scores(buf, best) >= DEBOUNCE_THRESHOLD THEN best
    ELSE NoVerdict

\* lines 304-315, for the pruned buffer and the key max() gave
feed_ret(buf, best) ==
    IF \E v \in keys(buf) : v # best /\ counts(buf, best) < counts(buf, v) * 3
    THEN NoVerdict
    ELSE IF scores(buf, best) >= DEBOUNCE_THRESHOLD THEN best
    ELSE NoVerdict

\* counts[v] with a list for v and scores.get(v, 0) + c with a string for c
\* raise TypeError, which nothing in feed or loop catches
feed_raises(rd) == rd.verdict_type # "str" \/ rd.conf_type # "int"

\* ---------------------------------------------------- handle_state_transition
States == {"awake", "asleep", "away"}

NoEvent == "none"

Outcomes == {"answered", "refused", "timeout"}

\* mutant: Awake moves the state only out of asleep
handle_state_transition_state_stuck(prev, new_verdict) ==
    CASE new_verdict = "Asleep" -> IF prev # "asleep" THEN "asleep" ELSE prev
      [] new_verdict = "Awake" -> IF prev = "asleep" THEN "awake" ELSE prev
      [] new_verdict = "No Baby Found" -> "away"
      [] OTHER -> prev

\* current_state when handle_state_transition returns
handle_state_transition_state(prev, new_verdict) ==
    CASE new_verdict = "Asleep" -> IF prev # "asleep" THEN "asleep" ELSE prev
      [] new_verdict = "Awake" ->
            IF prev = "asleep" THEN "awake"
            ELSE IF prev = "away" THEN "awake" ELSE prev
      [] new_verdict = "No Baby Found" -> "away"
      [] OTHER -> prev

\* mutant: every Asleep verdict fires sleep-start
handle_state_transition_post_always(prev, new_verdict) ==
    CASE new_verdict = "Asleep" -> "sleep-start"
      [] new_verdict = "Awake" -> IF prev = "asleep" THEN "sleep-end" ELSE NoEvent
      [] new_verdict = "No Baby Found" ->
            IF prev \in {"asleep", "awake"} THEN "baby-away" ELSE NoEvent
      [] OTHER -> NoEvent

\* the endpoint handle_state_transition gives to post_event
handle_state_transition_post(prev, new_verdict) ==
    CASE new_verdict = "Asleep" -> IF prev # "asleep" THEN "sleep-start" ELSE NoEvent
      [] new_verdict = "Awake" -> IF prev = "asleep" THEN "sleep-end" ELSE NoEvent
      [] new_verdict = "No Baby Found" ->
            IF prev \in {"asleep", "awake"} THEN "baby-away" ELSE NoEvent
      [] OTHER -> NoEvent

\* the requests post_event sends: one urequests.post
post_event(endpoint, outcome) == <<[endpoint |-> endpoint, outcome |-> outcome]>>

\* mutant: a POST that fails is let through to the caller
post_event_raises_uncaught(endpoint, outcome) == outcome # "answered"

\* whether post_event raises: the try block holds the post, the print of
\* the status and the close, and except Exception takes what they raise
post_event_raises(endpoint, outcome) == FALSE

\* ------------------------------------------------------------------- loop()
\* the instants the clock is looked at
DeviceInstants ==
    {h * (TICKS_PERIOD \div 2) + s * StepMs : h \in 0..MaxHalfPeriods, s \in 0..MaxSteps}

\* time.sleep_ms(500) at the end of a pass, and the passes that find the
\* UART empty; the time the feeds of one pass take is not counted
sleep_ms(t) ==
    /\ ~halted
    /\ posted = <<>>
    /\ cam_readings = <<>>
    /\ t > uptime
    /\ uptime' = t
    /\ debounced' = NotFed
    /\ posted' = <<>>
    /\ UNCHANGED <<buffer, current_state, cam_readings, halted, emitted>>
    /\ UNCHANGED <<vars, aggregator>>

\* step 3 of loop(): parse_camera_uart drains the lines the UART holds
parse_camera_uart(lines) ==
    /\ ~halted
    /\ posted = <<>>
    /\ cam_readings = <<>>
    /\ Len(prune(buffer, ticks_ms)) + Len(parse_results(lines)) <= MaxBuffer
    /\ cam_readings' = parse_results(lines)
    /\ debounced' = NotFed
    /\ posted' = <<>>
    /\ UNCHANGED <<uptime, buffer, current_state, halted, emitted>>
    /\ UNCHANGED <<vars, aggregator>>

\* the body of "for verdict, confidence in cam_readings": feed, then
\* handle_state_transition when feed gave a verdict.  best is the key max()
\* gives, outcome what becomes of the POST if there is one.  The step ends
\* where the body calls urequests.post: the call is synchronous, so the
\* program stays in it until post_event_returns.
loop_feed(best, outcome) ==
    LET rd == Head(cam_readings)
        buf == prune(Append(buffer, Entry(rd)), ticks_ms)
        verdict == feed_ret(buf, best)
        endpoint == handle_state_transition_post(current_state, verdict)
    IN
    /\ ~halted
    /\ posted = <<>>
    /\ cam_readings # <<>>
    /\ best \in argmax(buf)
    /\ buffer' = buf
    /\ IF feed_raises(rd)
       THEN /\ halted' = TRUE
            /\ cam_readings' = <<>>
            /\ debounced' = NotFed
            /\ posted' = <<>>
            /\ UNCHANGED <<current_state, emitted>>
       ELSE /\ cam_readings' = Tail(cam_readings)
            /\ debounced' = verdict
            /\ current_state' = handle_state_transition_state(current_state, verdict)
            /\ posted' = IF endpoint = NoEvent THEN <<>> ELSE post_event(endpoint, outcome)
            /\ emitted' = IF endpoint = NoEvent THEN emitted ELSE Append(emitted, endpoint)
            /\ halted' = (endpoint # NoEvent /\ post_event_raises(endpoint, outcome))
    /\ UNCHANGED uptime
    /\ UNCHANGED <<vars, aggregator>>

\* urequests.post returns or raises (answered, refused, or after timeout=5),
\* post_event prints and returns, and the for loop goes to its next reading
post_event_returns ==
    /\ ~halted
    /\ posted # <<>>
    /\ posted' = <<>>
    /\ UNCHANGED <<uptime, buffer, current_state, cam_readings, halted, debounced,
                   emitted>>
    /\ UNCHANGED <<vars, aggregator>>

\* the device from boot; with MaxBuffer readings no window reaches the
\* threshold, so no POST is made and post_event_returns has nothing to do
DeviceNext ==
    \/ \E t \in DeviceInstants : sleep_ms(t)
    \/ \E lines \in Drains : parse_camera_uart(lines)
    \/ \E best \in Verdicts, outcome \in Outcomes : loop_feed(best, outcome)

DeviceSpec == Init /\ [][DeviceNext]_<<vars, device>>

\* ------------------------------------------- the debouncer on drawn windows
\* the instant of the k-th reading of a drawn window, k from 0
ReadingAt(k) == WarmUpMs + k * ReadingMs

\* n readings of one label, the first the k-th reading of the window
Block(label, n, conf, k) ==
    [i \in 1..n |->
        [t |-> ReadingAt(k + i - 1) % TICKS_PERIOD, v |-> label, c |-> conf,
         observed_at |-> ReadingAt(k + i - 1)]]

WindowConfs == {CamConfidence \div 2, CamConfidence}

\* which label the first, second and third block of a window are of
Orders == {<<"Asleep", "Awake", "No Baby Found">>,
           <<"Awake", "No Baby Found", "Asleep">>,
           <<"No Baby Found", "Asleep", "Awake">>}

Window(order, na, nb, nc, conf) ==
    Block(order[1], na, conf, 0) \o Block(order[2], nb, conf, na)
        \o Block(order[3], nc, conf, na + nb)

Reading(v, conf) ==
    [verdict |-> v, verdict_type |-> "str", confidence |-> conf, conf_type |-> "int"]

\* The device some time after boot: the window holds the camera's last
\* readings (what the window held before them has been pruned) and the pass
\* has readings of one label to feed.  The lifecycle state is one the last
\* feed can have left: the verdict of the window as it stands, if it has
\* one, has been handled; a window that was never fed is the one at boot.
\* The events emitted so far are the fewest that lead to that state.
FeedInit ==
    /\ BackendBoot
    /\ AggregatorIdle
    /\ \E order \in Orders, na \in 0..MaxMajority, nb \in 0..MaxMinority,
          nc \in 0..MaxThird, conf \in WindowConfs :
          /\ buffer = Window(order, na, nb, nc, conf)
          /\ uptime = ReadingAt(na + nb + nc)
          /\ \E n \in 1..MaxQueue, v \in Labels :
                cam_readings = [i \in 1..n |-> Reading(v, conf)]
    /\ current_state \in States
    /\ IF buffer = <<>> THEN current_state = "away"
       ELSE \A best \in argmax(buffer) :
               handle_state_transition_state(current_state, feed_ret(buffer, best))
                  = current_state
    /\ halted = FALSE
    /\ debounced = NotFed
    /\ posted = <<>>
    /\ emitted = IF current_state = "asleep" THEN <<"sleep-start">> ELSE <<>>

FeedNext ==
    \/ \E best \in Verdicts, outcome \in Outcomes : loop_feed(best, outcome)
    \/ post_event_returns

FeedSpec == FeedInit /\ [][FeedNext]_<<vars, device>>

\* ------------------------------ the debouncer after a long silence of the camera
\* the instant of the k-th reading after the silence, k from 0: the tick
\* counter has gone through half its period since boot
LateAt(k) == TICKS_PERIOD \div 2 + WarmUpMs + k * ReadingMs

\* n readings of one label fed right after boot
Stale(label, n, conf) ==
    [i \in 1..n |->
        [t |-> ((i - 1) * ReadingMs) % TICKS_PERIOD, v |-> label, c |-> conf,
         observed_at |-> (i - 1) * ReadingMs]]

\* n readings of one label fed after the silence
Late(label, n, conf) ==
    [i \in 1..n |->
        [t |-> LateAt(i - 1) % TICKS_PERIOD, v |-> label, c |-> conf,
         observed_at |-> LateAt(i - 1)]]

\* The device when the camera sent readings right after boot, then nothing
\* for more than half the period of the tick counter, then readings of one
\* label again: the feeds after the silence have kept the old readings
\* (their age reads as negative), and the pass has readings of the same
\* label to feed.  The lifecycle state and the events are as in FeedInit.
LatencyInit ==
    /\ BackendBoot
    /\ AggregatorIdle
    /\ \E old \in Labels, v \in Labels, ns \in 0..MaxStale, nl \in 0..MaxMajority,
          conf \in WindowConfs :
          /\ buffer = Stale(old, ns, conf) \o Late(v, nl, conf)
          /\ buffer = prune(buffer, LateAt(nl - 1) % TICKS_PERIOD)
          /\ uptime = LateAt(nl)
          /\ \E n \in 1..MaxQueue : cam_readings = [i \in 1..n |-> Reading(v, conf)]
    /\ current_state \in States
    /\ IF buffer = <<>> THEN current_state = "away"
       ELSE \A best \in argmax(buffer) :
               handle_state_transition_state(current_state, feed_ret(buffer, best))
                  = current_state
    /\ halted = FALSE
    /\ debounced = NotFed
    /\ posted = <<>>
    /\ emitted = IF current_state = "asleep" THEN <<"sleep-start">> ELSE <<>>

LatencySpec == LatencyInit /\ [][FeedNext]_<<vars, device>>

\* ------------------------------------- the lifecycle on any debounced labels
\* what feed can return: a label, or None
Debounced == Labels \cup {NoVerdict}

\* handle_state_transition(new_verdict), called with any value feed can
\* return; outcome is what becomes of the POST if there is one
handle_state_transition(new_verdict, outcome) ==
    LET endpoint == handle_state_transition_post(current_state, new_verdict) IN
    /\ ~halted
    /\ posted = <<>>
    /\ Len(emitted) < MaxEmitted
    /\ current_state' = handle_state_transition_state(current_state, new_verdict)
    /\ posted' = IF endpoint = NoEvent THEN <<>> ELSE post_event(endpoint, outcome)
    /\ emitted' = IF endpoint = NoEvent THEN emitted ELSE Append(emitted, endpoint)
    /\ halted' = (endpoint # NoEvent /\ post_event_raises(endpoint, outcome))
    /\ UNCHANGED <<uptime, buffer, cam_readings, debounced>>
    /\ UNCHANGED <<vars, aggregator>>

TransitionNext ==
    \/ \E new_verdict \in Debounced, outcome \in Outcomes :
          handle_state_transition(new_verdict, outcome)
    \/ post_event_returns

TransitionSpec == Init /\ [][TransitionNext]_<<vars, device>>

\* ------------------------------------------- the device and the service together
\* the subject the device reports on, the one registered at boot (BABY_ID is
\* 10 in the source; ids here are 1..MaxBabies)
BABY_ID == 1

\* the handler of POST /sensor/{endpoint}
KindOf(endpoint) ==
    CASE endpoint = "sleep-start" -> "sleep_start"
      [] endpoint = "sleep-end" -> "sleep_end"
      [] endpoint = "baby-away" -> "baby_away"

\* the request of the POST the device waits on is with its handler
InFlight ==
    \E r \in Requests : req[r].pc # "idle" /\ req[r].kind = KindOf(posted[1].endpoint)

\* the answer to the POST the device waits on is on its way back
Answered == posted # <<>> /\ reply.kind = KindOf(posted[1].endpoint)

\* urequests.post: the request reaches the service, once, and its handler
\* starts
urequests_post(r) ==
    /\ posted # <<>>
    /\ posted[1].outcome = "answered"
    /\ ~InFlight
    /\ ~Answered
    /\ CASE posted[1].endpoint = "sleep-start" -> sleep_start_check(r, BABY_ID)
         [] posted[1].endpoint = "sleep-end" -> sleep_end_check(r, BABY_ID)
         [] posted[1].endpoint = "baby-away" -> baby_away(r, BABY_ID)

\* urequests.post returns with the answer, or raises when the service was
\* not reached; post_event prints the status code or the exception, reads
\* nothing else of the answer, and returns
urequests_post_returns ==
    /\ ~halted
    /\ posted # <<>>
    /\ posted[1].outcome = "answered" => Answered
    /\ posted' = <<>>
    /\ reply' = NoReply
    /\ UNCHANGED <<uptime, buffer, current_state, cam_readings, halted, debounced,
                   emitted>>
    /\ UNCHANGED <<now, babies, sleeping_babies, intervention_cooldowns,
                   awakening_events, req, running, lock>>
    /\ UNCHANGED aggregator

\* the steps that go on with a request that has arrived
Resumes ==
    \/ \E r \in Requests : sleep_start_ignored(r)
    \/ \E r \in Requests : sleep_start_resume(r)
    \/ \E r \in Requests : sleep_end_ignored(r)
    \/ \E r \in Requests : sleep_end_end_sleep(r)
    \/ \E r \in Requests, ok \in BOOLEAN : sleep_end_set_baby_awaking_event(r, ok)
    \/ \E r \in Requests : parent_intervention_cooldown(r)
    \/ \E r \in Requests : parent_intervention_mark_asleep(r)
    \/ \E r \in Requests : parent_intervention_mark_awake(r)

\* The device and the service.  An answer to the device is back with the
\* device before the service takes its next step (the device reads nothing
\* of it, so the order makes no difference to either).
PairNext ==
    \/ ~Answered /\ Tick
    \/ ~Answered /\ \E r \in Requests : urequests_post(r)
    \/ ~Answered /\ \E r \in Requests : sleep_start_ignored(r)
    \/ ~Answered /\ \E r \in Requests : sleep_start_resume(r)
    \/ ~Answered /\ \E r \in Requests : sleep_end_ignored(r)
    \/ ~Answered /\ \E r \in Requests : sleep_end_end_sleep(r)
    \/ ~Answered /\ \E r \in Requests, ok \in BOOLEAN :
                        sleep_end_set_baby_awaking_event(r, ok)
    \/ ~Answered /\ \E r \in Requests, action \in Actions :
                        parent_intervention_validate(r, BABY_ID, action)
    \/ ~Answered /\ \E r \in Requests : parent_intervention_cooldown(r)
    \/ ~Answered /\ \E r \in Requests : parent_intervention_mark_asleep(r)
    \/ ~Answered /\ \E r \in Requests : parent_intervention_mark_awake(r)
    \/ \E new_verdict \in Debounced, outcome \in Outcomes :
          handle_state_transition(new_verdict, outcome)
    \/ urequests_post_returns

\* The clock goes on, the event loop runs every coroutine that can run and
\* the database answers, a request the network carries arrives, and
\* urequests.post returns (timeout=5).  What the camera sees and what the
\* parent does is free.
PairFairness ==
    /\ WF_<<vars, device>>(~Answered /\ Tick)
    /\ WF_<<vars, device>>(~Answered /\ Resumes)
    /\ WF_<<vars, device>>(~Answered /\ \E r \in Requests : urequests_post(r))
    /\ WF_<<vars, device>>(urequests_post_returns)

PairSpec == Init /\ [][PairNext]_<<vars, device>> /\ PairFairness

\* ------------------------------------------ utils/sleep_blocks.py: the values
\* The aggregator is a plain function of the analytics code; it shares
\* nothing with the tracker or the device.  Instants are minutes of one day
\* (600 is 10:00).  A field of a record is kept with the Python type it has,
\* since _parse_timestamp, "or 0.0", timedelta and sum act on the type.

\* a key that is absent, or holds None
Missing == [type |-> "missing", at |-> 0, utc |-> FALSE, iso |-> FALSE]

\* a datetime object; utc: it carries a tzinfo
DateTime(at, utc) == [type |-> "datetime", at |-> at, utc |-> utc, iso |-> TRUE]

\* an ISO 8601 string; utc: it ends in "Z"
IsoString(at, utc) == [type |-> "str", at |-> at, utc |-> utc, iso |-> TRUE]

\* a string fromisoformat does not take
Unparseable == [type |-> "str", at |-> 0, utc |-> FALSE, iso |-> FALSE]

NoNumber == [type |-> "missing", n |-> 0]
Number(n) == [type |-> "number", n |-> n]
\* a number written as a string, as in "40"
Text(n) == [type |-> "str", n |-> n]

\* event_metadata: "absent", a "dict", a "json" string of one, a "text"
\* json.loads does not take
Metadata(type, s, e, d) ==
    [type |-> type, sleep_started_at |-> s, awakened_at |-> e,
     sleep_duration_minutes |-> d]

NoMetadata == Metadata("absent", Missing, Missing, NoNumber)

\* a row of get_sleep_sessions_for_range
Session(s, e, d) ==
    [is_dict |-> TRUE, ai_insight |-> FALSE, session_date |-> TRUE,
     event_metadata |-> NoMetadata, sleep_started_at |-> s, awakened_at |-> e,
     sleep_duration_minutes |-> NoNumber, duration_minutes |-> d]

\* a row of get_events_for_period
Period(type, s, e, d) ==
    [is_dict |-> TRUE, ai_insight |-> FALSE, session_date |-> FALSE,
     event_metadata |-> Metadata(type, s, e, d), sleep_started_at |-> Missing,
     awakened_at |-> Missing, sleep_duration_minutes |-> NoNumber,
     duration_minutes |-> NoNumber]

\* a row of get_awakenings_with_insights
Awakening(e, d) ==
    [is_dict |-> TRUE, ai_insight |-> TRUE, session_date |-> FALSE,
     event_metadata |-> NoMetadata, sleep_started_at |-> Missing, awakened_at |-> e,
     sleep_duration_minutes |-> d, duration_minutes |-> NoNumber]

\* a dict with the fields of a session and none of the three marker keys
Unmarked(s, e, d) == [Session(s, e, d) EXCEPT !.session_date = FALSE]

\* an element of the list that is no dict (None)
NotADict == [Session(Missing, Missing, NoNumber) EXCEPT !.is_dict = FALSE,
                                                       !.session_date = FALSE]

\* the records a collection is drawn from: sessions that follow each other
\* at gaps of 15 and 30 minutes, overlap, or start together; the same in
\* the two other shapes; and records the normalization or the arithmetic
\* after it stumbles on
Records ==
    { Session(DateTime(600, FALSE), DateTime(630, FALSE), Number(30)),
      Session(DateTime(645, FALSE), DateTime(660, FALSE), Number(15)),
      Session(DateTime(610, FALSE), DateTime(615, FALSE), Number(5)),
      Session(DateTime(645, FALSE), DateTime(650, FALSE), Number(5)),
      Period("dict", IsoString(675, FALSE), IsoString(690, FALSE), Number(15)),
      Period("json", IsoString(600, FALSE), IsoString(630, FALSE), NoNumber),
      Awakening(IsoString(720, FALSE), Number(40)),
      Awakening(DateTime(720, FALSE), NoNumber),
      Unmarked(DateTime(600, FALSE), DateTime(630, FALSE), Number(30)),
      Session(DateTime(600, FALSE), Missing, Number(30)),
      Session(Unparseable, DateTime(630, FALSE), Number(30)),
      Period("text", Missing, Missing, NoNumber),
      Session(DateTime(600, FALSE), DateTime(630, FALSE), Text(30)),
      Session(IsoString(600, TRUE), IsoString(630, TRUE), Number(30)),
      Awakening(DateTime(720, FALSE), Text(40)),
      NotADict }

Inputs == UNION {[1..n -> Records] : n \in 0..MaxRecords}

Thresholds == {10, 15, SLEEP_BLOCK_GAP_THRESHOLD_MINUTES}

Sources == {"auto", "awakenings_with_insights", "events_for_period",
            "sessions_for_range"}

\* ---------------------------------------------------- _normalize_event
\* "key in event" on something that is no container raises TypeError
detect_source_raises(event) == ~event.is_dict

detect_source(event) ==
    CASE event.event_metadata.type # "absent" -> "events_for_period"
      [] event.ai_insight -> "awakenings_with_insights"
      [] event.session_date -> "sessions_for_range"
      [] OTHER -> "unknown"

\* a datetime is returned as it is, a string goes through
\* fromisoformat(value.replace("Z", "+00:00")), anything else is None
parse_timestamp(value) ==
    CASE value.type = "datetime" -> [ok |-> TRUE, at |-> value.at, aware |-> value.utc]
      [] value.type = "str" /\ value.iso -> [ok |-> TRUE, at |-> value.at, aware |-> value.utc]
      [] OTHER -> [ok |-> FALSE, at |-> 0, aware |-> FALSE]

\* "x or 0.0"
or_zero(x) == IF x.type = "missing" \/ (x.type = "number" /\ x.n = 0) THEN Number(0) ELSE x

\* _normalize_event returns None
Dropped(event) ==
    [ok |-> FALSE, sleep_started_at |-> [at |-> 0, aware |-> FALSE],
     awakened_at |-> [at |-> 0, aware |-> FALSE], duration_minutes |-> Number(0),
     original |-> event]

Normalized(s, e, d, event) ==
    [ok |-> TRUE, sleep_started_at |-> [at |-> s.at, aware |-> s.aware],
     awakened_at |-> [at |-> e.at, aware |-> e.aware], duration_minutes |-> d,
     original |-> event]

\* mutant: the awakening is taken for the start of the sleep
sleep_started_before_same(awakened_at, duration) == awakened_at

\* awakened_at - timedelta(minutes=duration)
sleep_started_before(awakened_at, duration) ==
    [awakened_at EXCEPT !.at = awakened_at.at - duration.n]

\* the shape the record is read as
shape_of(event, src) == IF src = "auto" THEN detect_source(event) ELSE src

\* _normalize_event from its try on: every exception of the block gives
\* None (event.get on a non-dict, json.loads on a bad text, timedelta on a
\* string)
normalize_event(event, src) ==
    LET shape == shape_of(event, src)
        metadata == IF event.event_metadata.type = "absent" THEN NoMetadata
                    ELSE event.event_metadata
    IN
    IF ~event.is_dict THEN Dropped(event)
    ELSE CASE shape = "awakenings_with_insights" ->
                LET e == parse_timestamp(event.awakened_at)
                    d == or_zero(event.sleep_duration_minutes)
                IN IF ~e.ok \/ d.type # "number" THEN Dropped(event)
                   ELSE Normalized(sleep_started_before(e, d), e, d, event)
           [] shape = "events_for_period" ->
                LET s == parse_timestamp(metadata.sleep_started_at)
                    e == parse_timestamp(metadata.awakened_at)
                    d == or_zero(metadata.sleep_duration_minutes)
                IN IF metadata.type = "text" \/ ~s.ok \/ ~e.ok THEN Dropped(event)
                   ELSE Normalized(s, e, d, event)
           [] shape = "sessions_for_range" ->
                LET s == parse_timestamp(event.sleep_started_at)
                    e == parse_timestamp(event.awakened_at)
                    d == or_zero(event.duration_minutes)
                IN IF ~s.ok \/ ~e.ok THEN Dropped(event)
                   ELSE Normalized(s, e, d, event)
           [] OTHER -> Dropped(event)

\* ----------------------------------------------- group_into_sleep_blocks
\* the loop that fills normalized
RECURSIVE normalize_all(_, _)
normalize_all(evs, src) ==
    IF evs = <<>> THEN <<>>
    ELSE LET n == normalize_event(Head(evs), src)
         IN (IF n.ok THEN <<n>> ELSE <<>>) \o normalize_all(Tail(evs), src)

\* mutant: a record is put before the records of the same key
insort_before_equal(s, x) ==
    LET k == Cardinality({i \in DOMAIN s :
                            s[i].sleep_started_at.at < x.sleep_started_at.at})
    IN SubSeq(s, 1, k) \o <<x>> \o SubSeq(s, k + 1, Len(s))

\* x put into the sorted s behind every record whose key is not greater
insort(s, x) ==
    LET k == Cardinality({i \in DOMAIN s :
                            s[i].sleep_started_at.at <= x.sleep_started_at.at})
    IN SubSeq(s, 1, k) \o <<x>> \o SubSeq(s, k + 1, Len(s))

\* list.sort(key=...): ascending, records of equal key in the order they had
RECURSIVE sort(_)
sort(s) ==
    IF s = <<>> THEN <<>>
    ELSE insort(sort(SubSeq(s, 1, Len(s) - 1)), s[Len(s)])

\* comparing or subtracting a datetime with tzinfo and one without raises
\* TypeError; a sort of two or more keys compares keys of both kinds if
\* both are there
sort_raises(s) ==
    \E i \in DOMAIN s : \E j \in DOMAIN s :
        s[i].sleep_started_at.aware # s[j].sleep_started_at.aware

minus_raises(a, b) == a.aware # b.aware

RECURSIVE latest(_)
latest(evs) ==
    IF Len(evs) = 1 THEN evs[1].awakened_at.at
    ELSE LET m == latest(Tail(evs))
         IN IF evs[1].awakened_at.at > m THEN evs[1].awakened_at.at ELSE m

\* mutant: the gap is taken from the latest awakening of the block
gap_from_block(current_block_events, curr) ==
    curr.sleep_started_at.at - latest(current_block_events)

\* the gap of the loop: from the last record of the current block
gap(current_block_events, curr) ==
    curr.sleep_started_at.at - current_block_events[Len(current_block_events)].awakened_at.at

\* the loop over normalized[1:], as the lists handed to _build_block
RECURSIVE group(_, _, _)
group(rest, current_block_events, threshold) ==
    IF rest = <<>> THEN <<current_block_events>>
    ELSE IF gap(current_block_events, Head(rest)) <= threshold
         THEN group(Tail(rest), Append(current_block_events, Head(rest)), threshold)
         ELSE <<current_block_events>> \o group(Tail(rest), <<Head(rest)>>, threshold)

RECURSIVE sum(_)
sum(evs) == IF evs = <<>> THEN 0 ELSE Head(evs).duration_minutes.n + sum(Tail(evs))

\* mutant: every record of a block counts as an interruption
build_block_counts_all(normalized_events) ==
    LET block_start == normalized_events[1].sleep_started_at
        block_end == normalized_events[Len(normalized_events)].awakened_at
    IN [block_start |-> block_start,
        block_end |-> block_end,
        total_sleep_minutes |-> sum(normalized_events),
        total_block_minutes |-> block_end.at - block_start.at,
        interruption_count |-> Len(normalized_events),
        event_count |-> Len(normalized_events),
        events |-> [i \in DOMAIN normalized_events |-> normalized_events[i].original]]

build_block(normalized_events) ==
    LET block_start == normalized_events[1].sleep_started_at
        block_end == normalized_events[Len(normalized_events)].awakened_at
    IN [block_start |-> block_start,
        block_end |-> block_end,
        total_sleep_minutes |-> sum(normalized_events),
        total_block_minutes |-> block_end.at - block_start.at,
        interruption_count |-> Len(normalized_events) - 1,
        event_count |-> Len(normalized_events),
        events |-> [i \in DOMAIN normalized_events |-> normalized_events[i].original]]

\* sum() adds a string to a number, or block_end - block_start mixes kinds
build_block_raises(normalized_events) ==
    \/ \E i \in DOMAIN normalized_events :
          normalized_events[i].duration_minutes.type # "number"
    \/ minus_raises(normalized_events[Len(normalized_events)].awakened_at,
                    normalized_events[1].sleep_started_at)

\* the local list normalized after line 46
group_into_sleep_blocks_normalized(evs, src) == sort(normalize_all(evs, src))

group_into_sleep_blocks_ret(evs, threshold, src) ==
    LET n == group_into_sleep_blocks_normalized(evs, src)
    IN IF evs = <<>> \/ n = <<>> THEN <<>>
       ELSE LET lists == group(Tail(n), <<Head(n)>>, threshold)
            IN [k \in DOMAIN lists |-> build_block(lists[k])]

\* the exceptions nothing catches: _detect_source (called before the try
\* of _normalize_event), the sort, the gap, _build_block
group_into_sleep_blocks_raises(evs, threshold, src) ==
    LET n == group_into_sleep_blocks_normalized(evs, src)
    IN \/ src = "auto" /\ \E i \in DOMAIN evs : detect_source_raises(evs[i])
       \/ sort_raises(n)
       \/ \E i \in 1..(Len(n) - 1) : minus_raises(n[i + 1].sleep_started_at, n[i].awakened_at)
       \/ /\ n # <<>>
          /\ LET lists == group(Tail(n), <<Head(n)>>, threshold)
             IN \E k \in DOMAIN lists : build_block_raises(lists[k])

\* mutant: the caller's list is sorted in place and loses what was dropped
events_after_sorted(evs, src) ==
    LET n == group_into_sleep_blocks_normalized(evs, src)
    IN [i \in DOMAIN n |-> n[i].original]

\* the caller's list after the call: the function reads it and sorts a list
\* of its own
events_after(evs, src) == evs

\* one call of group_into_sleep_blocks on the caller's collection
group_into_sleep_blocks ==
    /\ calls < MaxCalls
    /\ calls' = calls + 1
    /\ IF group_into_sleep_blocks_raises(events, gap_threshold_minutes, source)
       THEN /\ result' = "raised"
            /\ normalized' = <<>>
            /\ blocks' = <<>>
       ELSE /\ result' = "returned"
            /\ normalized' = group_into_sleep_blocks_normalized(events, source)
            /\ blocks' = group_into_sleep_blocks_ret(events, gap_threshold_minutes, source)
    /\ events' = events_after(events, source)
    /\ UNCHANGED <<gap_threshold_minutes, source>>
    /\ UNCHANGED <<vars, device>>

\* a caller holds a collection, a threshold and a source
BlockInit ==
    /\ BackendBoot
    /\ DeviceBoot
    /\ events \in Inputs
    /\ gap_threshold_minutes \in Thresholds
    /\ source \in Sources
    /\ normalized = <<>>
    /\ blocks = <<>>
    /\ result = "none"
    /\ calls = 0

BlockNext == group_into_sleep_blocks

BlockSpec == BlockInit /\ [][BlockNext]_<<vars, device, aggregator>>

\* ------------------------------------------------------------------ claims
Automatic == {"sleep_start", "sleep_end"}

\* the cooldown of baby_id is active at this instant
CooldownActive(baby_id) ==
    /\ DictHas(intervention_cooldowns, baby_id)
    /\ now < DictGet(intervention_cooldowns, baby_id)

\* C1: the cooldown check of an automatic sleep-start or sleep-end and the
\* start_sleep / end_sleep that follows it are one atomic step with respect
\* to a manual override: the handler never changes the session set at a
\* moment when the subject's cooldown is active.
C1_CheckAndMutateAtomic ==
    [][\A r \in Requests :
          (/\ req[r].kind \in Automatic
           /\ req[r].pc \in {"start_sleep", "end_sleep"}
           /\ req'[r] # req[r]
           /\ CooldownActive(req[r].baby_id))
          => sleeping_babies' = sleeping_babies]_vars

\* C2: an automatic sleep-start or sleep-end that reaches its cooldown check
\* while the subject's cooldown is active is answered "ignored", and the
\* session set is the same from its arrival to its answer.
C2_CooldownIgnores ==
    [][\A r \in Requests :
          /\ (/\ req[r].pc = "idle"
              /\ req'[r].kind \in Automatic
              /\ CooldownActive(req'[r].baby_id))
             => (/\ req'[r].pc = "get_cooldown_remaining"
                 /\ running' = r
                 /\ sleeping_babies' = sleeping_babies)
          /\ (/\ req[r].kind \in Automatic
              /\ req[r].pc = "get_cooldown_remaining")
             => (/\ sleeping_babies' = sleeping_babies
                 /\ running' \in {0, r}
                 /\ req'[r] # req[r] =>
                       (/\ reply'.body = "ignored"
                        /\ reply'.code = 200
                        /\ reply'.kind = req[r].kind
                        /\ reply'.baby_id = req[r].baby_id))]_vars

C2_Witness ==
    /\ reply.kind \in Automatic
    /\ reply.body = "ignored"
    /\ DictHas(sleeping_babies, reply.baby_id)

\* C3: a baby-away event received while the subject's cooldown is active
\* leaves the subject's session in place.
C3_BabyAwayRespectsCooldown ==
    [][(/\ reply'.kind = "baby_away"
        /\ CooldownActive(reply'.baby_id)
        /\ DictHas(sleeping_babies, reply'.baby_id))
       => DictHas(sleeping_babies', reply'.baby_id)]_vars

\* C4: every subject has at most one live session, and the start_time of a
\* live session does not change while the session is there.
C4_OneSessionStableStart ==
    /\ [](\A b \in BabyIds : Cardinality({e \in sleeping_babies : e.key = b}) <= 1)
    /\ [][\A b \in BabyIds :
             (DictHas(sleeping_babies, b) /\ DictHas(sleeping_babies', b))
             => DictGet(sleeping_babies', b) = DictGet(sleeping_babies, b)]_vars

\* a sleep-start was answered for a subject whose session is older
C4_Witness ==
    /\ reply.body = "SleepStartResponse"
    /\ reply.start_time < now
    /\ DictGet(sleeping_babies, reply.baby_id) = reply.start_time

\* C5: every ignored answer of sleep-start or sleep-end carries a positive
\* integer cooldown_remaining_minutes (never null).
C5_IgnoredCarriesRemaining ==
    (reply.kind \in Automatic /\ reply.body = "ignored")
    => (/\ reply.code = 200
        /\ reply.cooldown_remaining_minutes # None
        /\ reply.cooldown_remaining_minutes > 0)

\* C6: a sleep-end for a subject with no session and a sleep-start for a
\* subject that already has one are answered with a non-error result that
\* differs from the answer of an applied effect.
C6_NoOpResultsDistinct ==
    [][\A r \in Requests :
          /\ (/\ req[r].kind = "sleep_end"
              /\ req[r].pc = "end_sleep"
              /\ req'[r] # req[r]
              /\ ~DictHas(sleeping_babies, req[r].baby_id))
             => (reply'.code < 400 /\ reply'.body # "AwakeningEventResponse")
          /\ (/\ req[r].kind = "sleep_start"
              /\ req[r].pc = "start_sleep"
              /\ req'[r] # req[r]
              /\ req[r].baby_exists
              /\ DictHas(sleeping_babies, req[r].baby_id))
             => (reply'.code < 400 /\ reply'.body # "SleepStartResponse")]_vars

\* C7: every subject with a live session is in the registry of known
\* subjects.
C7_NoPhantomSession == DictKeys(sleeping_babies) \subseteq babies

\* an event for an unknown subject was turned away
C7_Witness ==
    /\ reply.kind \in {"sleep_start", "intervention"}
    /\ reply.code = 404
    /\ reply.baby_id \notin babies
    /\ sleeping_babies # {}

\* C8: every automatic event and every manual override addressed to a
\* subject that is not in the registry is answered not-found.
C8_UnknownSubjectNotFound ==
    (/\ reply.kind \in {"sleep_start", "sleep_end", "baby_away", "intervention"}
     /\ reply.baby_id \notin babies)
    => reply.code = 404

\* C9: a manual override for a known subject sets the cooldown entry to its
\* now plus the full duration whatever entry was there, and when it
\* completes that entry stands and the tracker matches the action.
C9_OverrideSetsCooldown ==
    /\ [][\A r \in Requests :
             (/\ req[r].kind = "intervention"
              /\ req[r].pc = "start_intervention_cooldown"
              /\ req[r].baby_exists
              /\ req'[r] # req[r])
             => (/\ DictGet(intervention_cooldowns', req[r].baby_id)
                       = now + INTERVENTION_COOLDOWN_MINUTES
                 /\ req'[r].pc \in {"start_sleep", "end_sleep"}
                 /\ req'[r].cooldown_until = now + INTERVENTION_COOLDOWN_MINUTES)]_vars
    /\ []((reply.kind = "intervention" /\ reply.code = 200)
          => (/\ DictGet(intervention_cooldowns, reply.baby_id) = reply.cooldown_until
              /\ reply.action = "mark_asleep" => DictHas(sleeping_babies, reply.baby_id)
              /\ reply.action = "mark_awake" => ~DictHas(sleeping_babies, reply.baby_id)))

\* an override has completed at an instant inside the cooldown window of
\* one made when the clock started
C9_Witness ==
    /\ reply.kind = "intervention"
    /\ reply.code = 200
    /\ reply.cooldown_until = now + INTERVENTION_COOLDOWN_MINUTES
    /\ 0 < now
    /\ now < INTERVENTION_COOLDOWN_MINUTES

\* the instants a clock read can give
Times == {k * TickMinutes : k \in 0..MaxTicks}

\* C10: start_sleep on a subject that has a session returns that session and
\* leaves the tracker as it is; two calls in a row give the tracker and the
\* session of one call.
C10_StartSleepIdempotent ==
    /\ [](\A b \in BabyIds : \A t1 \in Times : \A t2 \in Times :
            LET once == start_sleep_map(sleeping_babies, b, t1) IN
            /\ start_sleep_map(once, b, t2) = once
            /\ start_sleep_ret(once, b, t2) = start_sleep_ret(sleeping_babies, b, t1)
            /\ DictHas(sleeping_babies, b) =>
                  (/\ once = sleeping_babies
                   /\ start_sleep_ret(sleeping_babies, b, t1) = DictGet(sleeping_babies, b)))
    /\ [][\A r \in Requests :
             (/\ req[r].pc = "start_sleep"
              /\ req[r].baby_exists
              /\ req'[r] # req[r]
              /\ DictHas(sleeping_babies, req[r].baby_id))
             => (/\ sleeping_babies' = sleeping_babies
                 /\ req[r].kind = "sleep_start" =>
                       reply'.start_time = DictGet(sleeping_babies, req[r].baby_id))]_vars

\* a manual mark_asleep met a session that was already there
C10_Witness ==
    /\ reply.kind = "intervention"
    /\ reply.body = "sleeping"
    /\ DictHas(sleeping_babies, reply.baby_id)
    /\ DictGet(sleeping_babies, reply.baby_id) < now

\* C11: end_sleep on a subject without a session returns None and leaves the
\* sessions and the cooldowns as they are; on a subject with a session it
\* removes that subject's session, returns it, and leaves every other
\* subject's session in place.
C11_EndSleep ==
    /\ [](\A b \in BabyIds :
            LET after == end_sleep_map(sleeping_babies, b) IN
            /\ ~DictHas(sleeping_babies, b) =>
                  (end_sleep_ret(sleeping_babies, b) = None /\ after = sleeping_babies)
            /\ DictHas(sleeping_babies, b) =>
                  (/\ end_sleep_ret(sleeping_babies, b) = DictGet(sleeping_babies, b)
                   /\ end_sleep_ret(sleeping_babies, b) # None
                   /\ ~DictHas(after, b))
            /\ \A e \in sleeping_babies : e.key # b => e \in after
            /\ after \subseteq sleeping_babies)
    /\ [][\A r \in Requests :
             /\ (/\ req[r].pc = "end_sleep"
                 /\ req'[r] # req[r])
                => (/\ sleeping_babies' = {e \in sleeping_babies : e.key # req[r].baby_id}
                    /\ intervention_cooldowns' = intervention_cooldowns
                    /\ req[r].kind = "sleep_end" =>
                          IF DictHas(sleeping_babies, req[r].baby_id)
                          THEN req'[r].session = DictGet(sleeping_babies, req[r].baby_id)
                          ELSE reply'.body = "not_sleeping")
             /\ (/\ req[r].pc = "idle"
                 /\ running = 0
                 /\ reply'.kind = "baby_away")
                => (/\ sleeping_babies' = {e \in sleeping_babies : e.key # reply'.baby_id}
                    /\ intervention_cooldowns' = intervention_cooldowns
                    /\ IF DictHas(sleeping_babies, reply'.baby_id)
                       THEN /\ reply'.body = "was_sleeping"
                            /\ reply'.start_time = DictGet(sleeping_babies, reply'.baby_id)
                       ELSE reply'.body = "was_not_sleeping")]_vars

\* end_sleep has taken one subject's session and another subject's is left
C11_Witness ==
    /\ reply.kind = "baby_away"
    /\ reply.body = "was_sleeping"
    /\ ~DictHas(sleeping_babies, reply.baby_id)
    /\ sleeping_babies # {}
    /\ intervention_cooldowns # {}

\* the subject whose cooldown the step from the unprimed to the primed state
\* has checked with is_in_cooldown, and what the check returned
CheckedInCooldown(r) ==
    /\ req[r].pc = "idle"
    /\ req'[r].pc = "get_cooldown_remaining"

CheckedNotInCooldown(r) ==
    /\ req[r].pc = "idle"
    /\ running = 0
    /\ \/ req'[r].kind \in Automatic /\ req'[r].pc \in {"start_sleep", "end_sleep"}
       \/ req'[r].pc = "idle" /\ reply'.kind = "cooldown_status"

CheckedSubject(r) ==
    IF req'[r].pc = "idle" THEN reply'.baby_id ELSE req'[r].baby_id

\* C12: is_in_cooldown returns true exactly when the subject has an entry
\* with now strictly before its expiry (false at now = expiry); when it
\* returns false the subject has no entry afterwards; it changes no other
\* subject's entry and no session.
C12_IsInCooldown ==
    /\ [](\A b \in BabyIds : \A t \in Times :
            LET after == is_in_cooldown_map(intervention_cooldowns, b, t) IN
            /\ is_in_cooldown_ret(intervention_cooldowns, b, t)
                  <=> (DictHas(intervention_cooldowns, b)
                       /\ t < DictGet(intervention_cooldowns, b))
            /\ is_in_cooldown_ret(intervention_cooldowns, b, t) => after = intervention_cooldowns
            /\ ~is_in_cooldown_ret(intervention_cooldowns, b, t) => ~DictHas(after, b)
            /\ \A e \in intervention_cooldowns : e.key # b => e \in after
            /\ after \subseteq intervention_cooldowns)
    /\ [][\A r \in Requests :
             /\ CheckedInCooldown(r) =>
                   (/\ CooldownActive(CheckedSubject(r))
                    /\ intervention_cooldowns' = intervention_cooldowns
                    /\ sleeping_babies' = sleeping_babies)
             /\ CheckedNotInCooldown(r) =>
                   (/\ ~CooldownActive(CheckedSubject(r))
                    /\ intervention_cooldowns' =
                          {e \in intervention_cooldowns : e.key # CheckedSubject(r)}
                    /\ sleeping_babies' = sleeping_babies)]_vars

\* the check has said no at the instant an override's cooldown ends, the
\* other subject's entry is still there
C12_Witness ==
    /\ reply.kind = "cooldown_status"
    /\ reply.body = "no_cooldown"
    /\ now = INTERVENTION_COOLDOWN_MINUTES
    /\ ~DictHas(intervention_cooldowns, reply.baby_id)
    /\ \E e \in intervention_cooldowns : e.val > now

\* a feed has just returned (its result is in debounced, the window it
\* tallied in buffer)
Fed == debounced # NotFed

\* label w wins the window: the greatest count, three times the count of
\* every other label in the window, a confidence sum at the threshold
Wins(w) ==
    /\ w \in keys(buffer)
    /\ \A v \in keys(buffer) \ {w} :
          /\ counts(buffer, w) >= counts(buffer, v)
          /\ counts(buffer, w) >= 3 * counts(buffer, v)
    /\ scores(buffer, w) >= DEBOUNCE_THRESHOLD

\* the window holds a, b and c readings of three different labels, the a
\* readings being of label w
Tally(w, a, b, c) ==
    /\ counts(buffer, w) = a
    /\ \E v1 \in Labels \ {w}, v2 \in Labels \ {w} :
          /\ v1 # v2
          /\ counts(buffer, v1) = b
          /\ counts(buffer, v2) = c

\* C13: feed returns label W exactly when W wins the pruned window, and
\* nothing otherwise; with counts (9, 3, 3) and the majority's confidence at
\* the threshold it returns the majority label, with (9, 4, 3) nothing.
C13_FeedVerdict ==
    Fed =>
       /\ \A w \in Verdicts : debounced = w <=> Wins(w)
       /\ debounced = NoVerdict <=> ~(\E w \in Verdicts : Wins(w))
       /\ \A w \in Labels :
             /\ (Tally(w, 9, 3, 3) /\ scores(buffer, w) >= DEBOUNCE_THRESHOLD)
                   => debounced = w
             /\ Tally(w, 9, 4, 3) => debounced = NoVerdict

C13_Witness ==
    /\ Fed
    /\ Tally("Asleep", 9, 3, 3)
    /\ debounced = "Asleep"

\* C14: whenever feed returns a label, the confidence sum of that label over
\* the readings in the window is at least the threshold.
C14_VerdictHasConfidence ==
    (Fed /\ debounced # NoVerdict) => scores(buffer, debounced) >= DEBOUNCE_THRESHOLD

\* one label alone in the window nine times over, its confidence sum short of
\* the threshold: nothing returned
C14_Witness ==
    /\ Fed
    /\ debounced = NoVerdict
    /\ \E w \in Labels :
          /\ keys(buffer) = {w}
          /\ counts(buffer, w) >= 9
          /\ scores(buffer, w) < DEBOUNCE_THRESHOLD

\* C15: when two or more labels share the greatest count of the window, feed
\* returns nothing whatever their confidence sums, and what feed returns is
\* the same for every label max() can give.
C15_TiesGiveNothing ==
    Fed =>
       /\ Cardinality(argmax(buffer)) >= 2 => debounced = NoVerdict
       /\ \A best \in argmax(buffer) : feed_ret(buffer, best) = debounced

\* two labels tie, each with a confidence sum at the threshold
C15_Witness ==
    /\ Fed
    /\ debounced = NoVerdict
    /\ Cardinality(argmax(buffer)) >= 2
    /\ \A w \in argmax(buffer) : scores(buffer, w) >= DEBOUNCE_THRESHOLD

\* C16: after every feed every reading in the buffer was observed no more
\* than the window span ago, a reading that is no older than the span has
\* been kept, the reading just fed is the last of the buffer, and the buffer
\* is in arrival order.
C16_WindowInvariant ==
    /\ [](Fed =>
            /\ \A i \in DOMAIN buffer : buffer[i].observed_at >= uptime - window_ms
            /\ buffer # <<>>
            /\ buffer[Len(buffer)].observed_at = uptime
            /\ \A i \in DOMAIN buffer : \A j \in DOMAIN buffer :
                  i < j => buffer[i].observed_at <= buffer[j].observed_at)
    /\ [][debounced' # NotFed =>
             \A i \in DOMAIN buffer :
                buffer[i].observed_at >= uptime' - window_ms
                   => \E j \in DOMAIN buffer' : buffer'[j] = buffer[i]]_device

\* the lifecycle state an event stands for
StateOf(endpoint) ==
    CASE endpoint = "sleep-start" -> "asleep"
      [] endpoint = "sleep-end" -> "awake"
      [] endpoint = "baby-away" -> "away"

\* the step from the unprimed to the primed state goes to state s and
\* emits event e (NoEvent: none)
Goes(s, e) ==
    /\ current_state' = s
    /\ IF e = NoEvent THEN posted' = <<>>
       ELSE /\ Len(posted') = 1
            /\ posted'[1].endpoint = e
            /\ posted'[1].outcome \in Outcomes

\* C17: the lifecycle state starts as away, is always one of awake, asleep,
\* away, and every debounced input moves it as the transition table says:
\* Asleep outside asleep gives asleep with sleep-start; Awake in asleep gives
\* awake with sleep-end; Awake in away gives awake without an event;
\* NoSubject in asleep or awake gives away with baby-away; anything else
\* changes nothing and emits nothing.
C17_TransitionTable ==
    /\ [](current_state \in States)
    /\ [](buffer = <<>> => current_state = "away")
    /\ [][debounced' # NotFed =>
             CASE debounced' = "Asleep" /\ current_state # "asleep" -> Goes("asleep", "sleep-start")
               [] debounced' = "Awake" /\ current_state = "asleep" -> Goes("awake", "sleep-end")
               [] debounced' = "Awake" /\ current_state = "away" -> Goes("awake", NoEvent)
               [] debounced' = "No Baby Found" /\ current_state \in {"asleep", "awake"} ->
                     Goes("away", "baby-away")
               [] OTHER -> Goes(current_state, NoEvent)]_device

\* the subject has left while awake
C17_Witness ==
    /\ debounced = "No Baby Found"
    /\ current_state = "away"
    /\ posted # <<>>
    /\ posted[1].endpoint = "baby-away"

\* C18: an event is emitted only on a step that changes the lifecycle state,
\* one event at most per step, and a label that follows itself emits
\* nothing.
C18_EventsOnlyOnChange ==
    /\ [](\A st \in States : \A w \in Labels :
            handle_state_transition_post(handle_state_transition_state(st, w), w) = NoEvent)
    /\ [][/\ Len(posted') <= 1
          /\ posted' # <<>> => current_state' # current_state
          /\ (debounced \in Labels /\ debounced' = debounced) => posted' = <<>>]_device

\* the last reading of a run has been fed, its verdict re-affirmed the state
C18_Witness ==
    /\ debounced = "Asleep"
    /\ current_state = "asleep"
    /\ posted = <<>>
    /\ cam_readings = <<>>
    /\ counts(buffer, "Asleep") >= 8

\* C19: whatever becomes of the POST (answered, refused, timed out), it is
\* attempted once, the loop goes on, and the lifecycle state is the one the
\* event stands for.
C19_PostFailureSwallowed ==
    /\ [](posted # <<>> =>
            /\ Len(posted) = 1
            /\ current_state = StateOf(posted[1].endpoint)
            /\ ~halted)
    /\ [][posted' # <<>> => current_state' # current_state]_device

\* a sleep-start timed out and the device is asleep
C19_Witness ==
    /\ posted # <<>>
    /\ posted[1].outcome = "timeout"
    /\ posted[1].endpoint = "sleep-start"
    /\ current_state = "asleep"
    /\ ~halted

\* C20: no line of the classifier stops the loop.
C20_NoLineStopsLoop == ~halted

\* the step feeds the next reading of the pass to the debouncer
FeedStep == cam_readings # <<>> /\ cam_readings' = Tail(cam_readings)

\* C21: an event's POST does not stall the loop: while the POST is
\* outstanding and readings wait, the next reading can be fed.
C21_PostDoesNotStall ==
    (~halted /\ posted # <<>> /\ cam_readings # <<>>) =>
        ENABLED (\E best \in Verdicts, outcome \in Outcomes : loop_feed(best, outcome))

\* C22: a pass of the loop feeds one reading, however many lines the UART
\* held: after a feed the pass has no reading left to feed.
C22_OneReadingPerTick == [][FeedStep => cam_readings' = <<>>]_device

\* ------------------------------------------------- claims on the aggregator
Returned == result = "returned"

\* the gap between the i-th record of the sorted list and the next
GapAt(i) == normalized[i + 1].sleep_started_at.at - normalized[i].awakened_at.at

\* the constituents of the blocks before block k
RECURSIVE Before(_)
Before(k) == IF k = 1 THEN 0 ELSE Before(k - 1) + Len(blocks[k - 1].events)

\* the block that holds the i-th record of the sorted list
BlockOf(i) ==
    CHOOSE k \in DOMAIN blocks : Before(k) < i /\ i <= Before(k) + Len(blocks[k].events)

\* the i-th record of the sorted list runs from s to e
Spans(i, s, e) ==
    normalized[i].sleep_started_at.at = s /\ normalized[i].awakened_at.at = e

\* C23: a record of the sorted list joins the block of the record before it
\* exactly when its start is no more than the threshold after that record's
\* awakening (an equal gap joins); the blocks are one more than the adjacent
\* pairs with a greater gap; 10:00-10:30 and 10:45-11:00 are one block at
\* threshold 30 and two at threshold 10; a chain of gaps within the
\* threshold is one block.
C23_GapGrouping ==
    (Returned /\ normalized # <<>>) =>
       LET pairs == 1..(Len(normalized) - 1) IN
       /\ Len(blocks) =
             1 + Cardinality({i \in pairs : GapAt(i) > gap_threshold_minutes})
       /\ \A i \in pairs :
             BlockOf(i + 1) = BlockOf(i) <=> GapAt(i) <= gap_threshold_minutes
       /\ (\A i \in pairs : GapAt(i) <= gap_threshold_minutes) => Len(blocks) = 1
       /\ (Len(normalized) = 2 /\ Spans(1, 600, 630) /\ Spans(2, 645, 660)) =>
             /\ gap_threshold_minutes = 30 => Len(blocks) = 1
             /\ gap_threshold_minutes = 10 => Len(blocks) = 2

\* a gap equal to the threshold has joined, a greater one has not
C23_Witness ==
    /\ Returned
    /\ Len(normalized) = 3
    /\ GapAt(1) = gap_threshold_minutes
    /\ BlockOf(2) = BlockOf(1)
    /\ GapAt(2) > gap_threshold_minutes
    /\ BlockOf(3) # BlockOf(2)

RECURSIVE DurationSum(_, _)
DurationSum(lo, hi) ==
    IF lo > hi THEN 0 ELSE normalized[lo].duration_minutes.n + DurationSum(lo + 1, hi)

\* C24: a block starts with its first constituent's start, ends with its
\* last constituent's awakening, sums the constituents' durations, spans
\* from start to end, counts its constituents (at least one) and one
\* interruption fewer.
C24_BlockFields ==
    Returned =>
       \A k \in DOMAIN blocks :
          LET b == blocks[k]
              lo == Before(k) + 1
              hi == Before(k) + Len(b.events)
          IN /\ lo <= hi
             /\ hi <= Len(normalized)
             /\ b.events = [i \in 1..(hi - lo + 1) |-> normalized[lo + i - 1].original]
             /\ b.block_start = normalized[lo].sleep_started_at
             /\ b.block_end = normalized[hi].awakened_at
             /\ b.total_sleep_minutes = DurationSum(lo, hi)
             /\ b.total_block_minutes = b.block_end.at - b.block_start.at
             /\ b.event_count = hi - lo + 1
             /\ b.event_count >= 1
             /\ b.interruption_count = b.event_count - 1

\* three records in one block: 10:00-10:30, 10:45-11:00, 11:20-12:00
C24_Witness ==
    /\ Returned
    /\ \E k \in DOMAIN blocks :
          /\ blocks[k].event_count = 3
          /\ blocks[k].interruption_count = 2
          /\ blocks[k].block_start.at = 600
          /\ blocks[k].block_end.at = 720
          /\ blocks[k].total_sleep_minutes = 85
          /\ blocks[k].total_block_minutes = 120

\* the minutes a duration field stands for, a missing one for none
MinutesOf(d) == IF d.type = "missing" THEN 0 ELSE d.n

\* C25: a record read in the awakened_at + duration shape gets
\* sleep_started_at = awakened_at - duration (12:00 and 40 minutes give
\* 11:20, a missing duration counts as 0); a record of the two other shapes
\* keeps its own sleep_started_at and awakened_at.
C25_NormalizedStart ==
    Returned =>
       \A i \in DOMAIN normalized :
          LET n == normalized[i]
              e == n.original
              shape == shape_of(e, source)
          IN /\ shape = "awakenings_with_insights" =>
                   /\ n.awakened_at.at = e.awakened_at.at
                   /\ n.sleep_started_at.at =
                         e.awakened_at.at - MinutesOf(e.sleep_duration_minutes)
                   /\ (e.awakened_at.at = 720 /\ e.sleep_duration_minutes = Number(40))
                         => n.sleep_started_at.at = 680
             /\ shape = "sessions_for_range" =>
                   /\ n.sleep_started_at.at = e.sleep_started_at.at
                   /\ n.awakened_at.at = e.awakened_at.at
             /\ shape = "events_for_period" =>
                   /\ n.sleep_started_at.at = e.event_metadata.sleep_started_at.at
                   /\ n.awakened_at.at = e.event_metadata.awakened_at.at

\* the awakening of 12:00 after 40 minutes beside one without a duration
C25_Witness ==
    /\ Returned
    /\ \E i \in DOMAIN normalized :
          /\ normalized[i].original = Awakening(IsoString(720, FALSE), Number(40))
          /\ normalized[i].sleep_started_at.at = 680
    /\ \E i \in DOMAIN normalized :
          /\ normalized[i].original = Awakening(DateTime(720, FALSE), NoNumber)
          /\ normalized[i].sleep_started_at.at = 720

\* fromisoformat, or no parse at all, gives a datetime
Parseable(value) == value.type = "datetime" \/ (value.type = "str" /\ value.iso)

\* the record is of a known shape and has the timestamps its shape requires
Normalizable(e) ==
    /\ e.is_dict
    /\ CASE shape_of(e, source) = "awakenings_with_insights" -> Parseable(e.awakened_at)
         [] shape_of(e, source) = "sessions_for_range" ->
               Parseable(e.sleep_started_at) /\ Parseable(e.awakened_at)
         [] shape_of(e, source) = "events_for_period" ->
               /\ Parseable(e.event_metadata.sleep_started_at)
               /\ Parseable(e.event_metadata.awakened_at)
         [] OTHER -> FALSE

Count(seq, r) == Cardinality({i \in DOMAIN seq : seq[i] = r})

\* the constituents of blocks 1..k, in order
RECURSIVE Constituents(_)
Constituents(k) == IF k = 0 THEN <<>> ELSE Constituents(k - 1) \o blocks[k].events

RECURSIVE EventCounts(_)
EventCounts(k) == IF k = 0 THEN 0 ELSE EventCounts(k - 1) + blocks[k].event_count

\* C26: every call returns; each normalizable record is in exactly one
\* block and each other record in none, so the event counts add up to the
\* number of normalizable records, and no normalizable record gives no
\* block.
C26_EveryRecordOnce ==
    result # "none" =>
       /\ Returned
       /\ \A r \in Records :
             Count(Constituents(Len(blocks)), r) =
                IF Normalizable(r) THEN Count(events, r) ELSE 0
       /\ EventCounts(Len(blocks)) =
             Cardinality({i \in DOMAIN events : Normalizable(events[i])})
       /\ (\A i \in DOMAIN events : ~Normalizable(events[i])) => blocks = <<>>

StartOf(e) == normalize_event(e, source).sleep_started_at.at

\* the records of seq that were kept with start t, in the order of seq
RECURSIVE WithStart(_, _)
WithStart(seq, t) ==
    IF seq = <<>> THEN <<>>
    ELSE (IF normalize_event(Head(seq), source).ok /\ StartOf(Head(seq)) = t
          THEN <<Head(seq)>> ELSE <<>>) \o WithStart(Tail(seq), t)

Permuted(seq, p) == [i \in DOMAIN seq |-> seq[p[i]]]

\* C28: the blocks ascend by block_start; the constituents of a block
\* ascend by sleep_started_at, those of equal start in the order of the
\* input; when the starts all differ every permutation of the input gives
\* the same blocks.
C28_Ordered ==
    Returned =>
       LET all == Constituents(Len(blocks))
           starts == {normalized[i].sleep_started_at.at : i \in DOMAIN normalized}
       IN /\ \A k \in 1..(Len(blocks) - 1) :
                blocks[k].block_start.at <= blocks[k + 1].block_start.at
          /\ \A k \in DOMAIN blocks :
                \A i \in DOMAIN blocks[k].events : \A j \in DOMAIN blocks[k].events :
                   i < j => StartOf(blocks[k].events[i]) <= StartOf(blocks[k].events[j])
          /\ \A t \in starts : WithStart(all, t) = WithStart(events, t)
          /\ Cardinality(starts) = Len(normalized) =>
                \A p \in Permutations(DOMAIN events) :
                   group_into_sleep_blocks_ret(Permuted(events, p), gap_threshold_minutes,
                                               source) = blocks

\* two blocks, one of them with two different records of the same start
C28_Witness ==
    /\ Returned
    /\ Len(blocks) >= 2
    /\ \E k \in DOMAIN blocks :
          \E i \in DOMAIN blocks[k].events : \E j \in DOMAIN blocks[k].events :
             /\ i < j
             /\ blocks[k].events[i] # blocks[k].events[j]
             /\ StartOf(blocks[k].events[i]) = StartOf(blocks[k].events[j])

\* ------------------------------------------------ claims on the status queries
StatusQueries == {"sleep_status", "sleeping_babies", "cooldown_status"}

\* the step is one of a status query: it answers one, or moves its coroutine
QueryStep ==
    \/ reply'.kind \in StatusQueries
    \/ \E r \in Requests : req'[r].kind \in StatusQueries /\ req'[r] # req[r]

\* C29: a step of a status query (sleep-status, sleeping-babies,
\* cooldown-status) leaves the session map and the cooldown map as they were.
C29_QueriesMutateNothing ==
    [][QueryStep =>
          /\ sleeping_babies' = sleeping_babies
          /\ intervention_cooldowns' = intervention_cooldowns]_vars

\* request r is waiting on a database or network call
Waiting(r) == req[r].pc # "idle" /\ running # r

WellOrdered ==
    \A i \in DOMAIN normalized :
       normalized[i].sleep_started_at.at <= normalized[i].awakened_at.at

\* C37: when every record has sleep_started_at <= awakened_at (records may
\* overlap or lie inside one another), a block's interval holds the interval
\* of each of its constituents: block_start is the earliest start and
\* block_end the latest awakening among them, and the span is not negative.
C37_BlockContainsConstituents ==
    (Returned /\ WellOrdered) =>
       \A k \in DOMAIN blocks :
          LET b == blocks[k]
              members == (Before(k) + 1)..(Before(k) + Len(b.events))
          IN /\ \A i \in members :
                   /\ b.block_start.at <= normalized[i].sleep_started_at.at
                   /\ normalized[i].awakened_at.at <= b.block_end.at
             /\ \E i \in members : b.block_start.at = normalized[i].sleep_started_at.at
             /\ \E i \in members : b.block_end.at = normalized[i].awakened_at.at
             /\ b.total_block_minutes >= 0

\* the span of a block of well-ordered records is not negative
C37_SpanNonNegative ==
    (Returned /\ WellOrdered) =>
       \A k \in DOMAIN blocks : blocks[k].total_block_minutes >= 0

\* ------------------------------------------------ claims on the remaining time
\* the step answers with what get_cooldown_remaining returned
RemainingStep == reply'.body \in {"ignored", "in_cooldown"}

\* C38: get_cooldown_remaining returns the remaining time rounded up to
\* whole minutes (on this clock of whole minutes the remaining time itself),
\* a number from 1 to INTERVENTION_COOLDOWN_MINUTES, and leaves the entry;
\* for an expired or missing entry it returns nothing and the entry is gone.
C38_RemainingRoundedUp ==
    [][RemainingStep =>
          LET baby_id == reply'.baby_id
              ret == reply'.cooldown_remaining_minutes
              left == DictGet(intervention_cooldowns, baby_id) - now
          IN IF DictHas(intervention_cooldowns, baby_id) /\ left > 0
             THEN /\ ret = left
                  /\ 1 <= ret
                  /\ ret <= INTERVENTION_COOLDOWN_MINUTES
                  /\ intervention_cooldowns' = intervention_cooldowns
             ELSE /\ ret = None
                  /\ ~DictHas(intervention_cooldowns', baby_id)]_vars

\* the parts of C38 the code keeps: at least 1 and at most one more than the
\* configured minutes for a live entry, nothing for an expired or missing one
C38_RemainingPlusOne ==
    [][RemainingStep =>
          LET baby_id == reply'.baby_id
              ret == reply'.cooldown_remaining_minutes
              left == DictGet(intervention_cooldowns, baby_id) - now
          IN IF DictHas(intervention_cooldowns, baby_id) /\ left > 0
             THEN /\ ret = left + 1
                  /\ intervention_cooldowns' = intervention_cooldowns
             ELSE /\ ret = None
                  /\ ~DictHas(intervention_cooldowns', baby_id)]_vars

\* ------------------------------------------------ claims on the awakening record
\* request r answers the error of a failed INSERT in this step
RecordFails(r) ==
    /\ req[r].kind = "sleep_end"
    /\ req[r].pc = "set_baby_awaking_event"
    /\ req'[r] = Idle
    /\ reply'.body = "record_failed"

\* C35: when the sleep-end handler answers the error of a failed INSERT, the
\* tracker is as it was before the request: the session the request found
\* is still live.
C35_FailedRecordKeepsSession ==
    [][\A r \in Requests :
          RecordFails(r) =>
             /\ DictHas(sleeping_babies', req[r].baby_id)
             /\ DictGet(sleeping_babies', req[r].baby_id) = req[r].session]_vars

\* request r persists an awakening record in this step
Persists(r) ==
    /\ req[r].kind = "sleep_end"
    /\ req[r].pc = "set_baby_awaking_event"
    /\ req[r].session # None
    /\ req'[r] = Idle
    /\ awakening_events' = Append(awakening_events, [baby_id |-> req[r].baby_id])

\* request r comes to hold a session to record in this step
TakesSession(r) ==
    /\ req'[r].pc = "set_baby_awaking_event"
    /\ req[r].pc # "set_baby_awaking_event"

\* C34: an awakening record is persisted only by a sleep-end request that
\* holds the session its end_sleep removed, once (the request is over
\* afterwards); a request comes to hold a session only by removing the live
\* session of its subject from the map, so of concurrent or repeated
\* sleep-end requests one takes it; every other step (baby-away, manual
\* mark_awake, an ignored event) persists nothing.
C34_OneRecordPerSession ==
    /\ [][awakening_events' # awakening_events => \E r \in Requests : Persists(r)]_vars
    /\ [][\A r \in Requests :
             TakesSession(r) =>
                /\ req'[r].kind = "sleep_end"
                /\ DictHas(sleeping_babies, req'[r].baby_id)
                /\ req'[r].session = DictGet(sleeping_babies, req'[r].baby_id)
                /\ ~DictHas(sleeping_babies', req'[r].baby_id)
                /\ \A r2 \in Requests \ {r} : ~TakesSession(r2)]_vars

\* a second sleep-end for the subject was answered 'not sleeping' while the
\* first, which took the session, still waits on its INSERT
C34_Witness ==
    /\ reply.kind = "sleep_end"
    /\ reply.body = "not_sleeping"
    /\ \E r \in Requests :
          /\ req[r].kind = "sleep_end"
          /\ req[r].pc = "set_baby_awaking_event"
          /\ req[r].baby_id = reply.baby_id
          /\ req[r].session # None

\* ------------------------------------------------ claims on the end of a cooldown
\* the entry of baby_id is still in the map and its instant is reached
CooldownExpired(baby_id) ==
    /\ DictHas(intervention_cooldowns, baby_id)
    /\ now >= DictGet(intervention_cooldowns, baby_id)

\* C32: an automatic sleep-start or sleep-end that arrives when the entry of
\* its subject has expired, the instant of expiry included, is not ignored
\* and the entry is removed; the sleep-start of a known subject then leaves
\* a session, and the sleep-end that finds a session removes it and goes on
\* to record the awakening.
C32_ExpiredCooldownProcesses ==
    [][\A r \in Requests :
          /\ (/\ req[r].pc = "idle"
              /\ req'[r].kind \in Automatic
              /\ CooldownExpired(req'[r].baby_id))
             => (/\ req'[r].pc = (IF req'[r].kind = "sleep_start"
                                  THEN "start_sleep" ELSE "end_sleep")
                 /\ ~DictHas(intervention_cooldowns', req'[r].baby_id)
                 /\ req'[r].kind = "sleep_start" =>
                       req'[r].baby_exists = (req'[r].baby_id \in babies))
          /\ (/\ req[r].kind = "sleep_start"
              /\ req[r].pc = "start_sleep"
              /\ req[r].baby_exists
              /\ req'[r] # req[r])
             => (/\ DictHas(sleeping_babies', req[r].baby_id)
                 /\ reply'.body = "SleepStartResponse")
          /\ (/\ req[r].kind = "sleep_end"
              /\ req[r].pc = "end_sleep"
              /\ req'[r] # req[r])
             => (/\ ~DictHas(sleeping_babies', req[r].baby_id)
                 /\ DictHas(sleeping_babies, req[r].baby_id) =>
                       req'[r].pc = "set_baby_awaking_event")]_vars

\* at the instant of expiry the entry of a known subject with a session is
\* still in the map, and the sensor's sleep-start and sleep-end can arrive
C32_Witness ==
    \E baby_id \in babies :
       /\ DictHas(intervention_cooldowns, baby_id)
       /\ now = DictGet(intervention_cooldowns, baby_id)
       /\ DictHas(sleeping_babies, baby_id)
       /\ ENABLED sleep_start_check(1, baby_id)
       /\ ENABLED sleep_end_check(1, baby_id)

\* ------------------------------------------------ claims on the emitted events
Starts == {i \in DOMAIN emitted : emitted[i] = "sleep-start"}

\* what holds of the emitted events: a sleep-end comes right after a
\* sleep-start, and two sleep-start events have a sleep-end or a baby-away
\* between them
EventsPaired ==
    /\ \A i \in DOMAIN emitted :
          emitted[i] = "sleep-end" => (i > 1 /\ emitted[i - 1] = "sleep-start")
    /\ \A i \in Starts : \A j \in Starts :
          i < j => \E k \in (i + 1)..(j - 1) : emitted[k] \in {"sleep-end", "baby-away"}

\* C36: in the events the device emits from its initial away state, for
\* every sequence of debounced labels, a sleep-end comes right after a
\* sleep-start, two sleep-start events have a sleep-end or a baby-away
\* between them, and no baby-away comes right after a baby-away.
C36_EventOrder ==
    /\ EventsPaired
    /\ \A i \in DOMAIN emitted :
          (i > 1 /\ emitted[i] = "baby-away") => emitted[i - 1] # "baby-away"

\* ------------------------------------------------ claims on the debounce latency
\* the readings of the buffer observed within the window span before now
Recent == {i \in DOMAIN buffer : buffer[i].observed_at >= uptime - window_ms}

RECURSIVE Confidence(_)
Confidence(is) ==
    IF is = {} THEN 0
    ELSE LET i == CHOOSE i \in is : TRUE IN buffer[i].c + Confidence(is \ {i})

\* every reading of the last window span carries label w (the last reading
\* of another label was fed more than the span ago), and their confidence
\* sum is at least the threshold
Settled(w) ==
    /\ \A i \in Recent : buffer[i].v = w
    /\ Confidence(Recent) >= DEBOUNCE_THRESHOLD

\* C33: a feed made when every reading of the last window span carries the
\* same label, with a confidence sum at the threshold, returns that label,
\* whatever was fed before and at whatever rate.
C33_LatencyBounded ==
    Fed => \A w \in Labels : Settled(w) => debounced = w

\* ------------------------------------------------ claims on the device and the service
\* the device is asleep and its sleep-start is answered 'ignored'
IgnoredAsleep ==
    /\ current_state = "asleep"
    /\ posted # <<>>
    /\ posted[1].endpoint = "sleep-start"
    /\ reply.kind = "sleep_start"
    /\ reply.baby_id = BABY_ID
    /\ reply.body = "ignored"

\* C31: when the sleep-start of the device is ignored for a cooldown and the
\* device has gone to asleep, then, unless the device leaves asleep, the
\* service comes to hold a session for the subject.
C31_IgnoredStartRecovers ==
    IgnoredAsleep ~> (DictHas(sleeping_babies, BABY_ID) \/ current_state # "asleep")

====
